---- MODULE Spec2Model ----
(***************************************************************************)
(* Authorization gate and domain-mutation rules of the feVttrpgBE backend  *)
(* (Fastify + Prisma): campaigns and memberships, characters, inventory,   *)
(* maps, tokens, presets, tilesets, roll logs and the audit log.           *)
(*                                                                         *)
(* The persistent store is the record db (one field per table).  A route   *)
(* handler is an operator from (db, session user, request) to a response   *)
(* and a new db; the actions apply the handlers.  Handlers whose reads and *)
(* writes are separate awaits are also given as step actions, so that two  *)
(* requests can interleave between a read and the write that follows it.   *)
(***************************************************************************)
EXTENDS Integers, Sequences, FiniteSets, TLC

VARIABLES
    db,       \* the relational store: one field per table
    resp,     \* the last request answered: op, caller, ids named, status, error
    budget,   \* requests the clients have yet to send
    pending   \* requests in flight between two awaits (step actions only)

vars == <<db, resp, budget, pending>>

-----------------------------------------------------------------------------
(* Bounds of the model *)

MaxRequests == 1      \* requests sent in one behaviour of Spec
MaxCampaigns == 2     \* campaign ids that can be allocated
MaxCharacters == 4    \* character ids that can be allocated
MaxInvRows == 9       \* inventory row ids that can be allocated
MaxMaps == 2
MaxTokens == 3
MaxPresets == 2
MaxTileSets == 2
MaxSkillRows == 3
MaxCoord == 1         \* largest coordinate / hp / uses value a request carries

(* Program constants *)

InventoryCap == 8     \* characters.ts: count >= 8 -> "Inventory is full"
MAX_TILES == 4096     \* tilesets.ts
MinTileCount == 5     \* maps.ts mapSchema: tileCountX/Y min(5)
DefaultTileCount == 10
MinNameLen == 2

-----------------------------------------------------------------------------
(* Identities and catalogs *)

Users == {"u1", "u2", "u3"}
NoUser == "none"                  \* request.session.userId is undefined
Callers == Users \cup {NoUser}
NoId == 0                         \* null reference / id that names no row
NullStr == "null"

\* e-mail addresses; "ghost" is registered by nobody
EmailOf(u) == u
Emails == Users \cup {"ghost"}

\* Item catalog (seeded, never changed by a route)
Items ==
    { [id |-> 1, category |-> "WEAPON", type |-> "sword", classRestriction |-> NullStr, uses |-> {1}],
      [id |-> 2, category |-> "ITEM",   type |-> "staff", classRestriction |-> NullStr, uses |-> {}],
      [id |-> 3, category |-> "WEAPON", type |-> "Laguz", classRestriction |-> "Cat",   uses |-> {}] }
ItemIds == {i.id : i \in Items}

\* Skill and class catalogs (seeded)
Skills == { [id |-> 1, name |-> "Shove"], [id |-> 2, name |-> "Canto"] }
GameClasses ==
    { [name |-> "Cat",     skills |-> <<"Shove", "Unknown">>],
      [name |-> "Fighter", skills |-> <<>>] }
ClassNames == {c.name : c \in GameClasses}

-----------------------------------------------------------------------------
(* Table helpers *)

Has(table, id) == \E r \in table : r.id = id
Get(table, id) == CHOOSE r \in table : r.id = id
Replace(table, row) == {r \in table : r.id # row.id} \cup {row}

Ok(d) == [status |-> 200, error |-> "", db |-> d]
Fail(d, s, e) == [status |-> s, error |-> e, db |-> d]
Invalid(d) == Fail(d, 400, "Invalid request")     \* ZodError -> app error handler

-----------------------------------------------------------------------------
(* Authorization gate: utils/auth *)

NoMembership == [userId |-> NoUser, campaignId |-> NoId, role |-> "NONE"]

getSessionUserId(uid) == uid

requireAuth(uid) ==
    IF getSessionUserId(uid) = NoUser
    THEN [status |-> 401, error |-> "Unauthorized"]
    ELSE [status |-> 200, error |-> ""]

FindMembership(d, userId, campaignId) ==
    {m \in d.members : m.userId = userId /\ m.campaignId = campaignId}

\* a gate that looks up no membership row: every signed-in caller passes as a
\* PLAYER unless a row says otherwise
requireCampaignMemberOpen(d, uid, campaignId) ==
    IF getSessionUserId(uid) = NoUser
    THEN [status |-> 401, error |-> "Unauthorized", membership |-> NoMembership]
    ELSE IF FindMembership(d, uid, campaignId) = {}
    THEN [status |-> 200, error |-> "",
          membership |-> [userId |-> uid, campaignId |-> campaignId, role |-> "PLAYER"]]
    ELSE [status |-> 200, error |-> "",
          membership |-> CHOOSE m \in FindMembership(d, uid, campaignId) : TRUE]

requireCampaignMember(d, uid, campaignId) ==
    IF getSessionUserId(uid) = NoUser
    THEN [status |-> 401, error |-> "Unauthorized", membership |-> NoMembership]
    ELSE IF FindMembership(d, uid, campaignId) = {}
    THEN [status |-> 403, error |-> "Forbidden", membership |-> NoMembership]
    ELSE [status |-> 200, error |-> "",
          membership |-> CHOOSE m \in FindMembership(d, uid, campaignId) : TRUE]

\* a gate that accepts every member, whatever the role
requireDMAnyRole(d, uid, campaignId) == requireCampaignMember(d, uid, campaignId)

requireDM(d, uid, campaignId) ==
    LET g == requireCampaignMember(d, uid, campaignId) IN
    IF g.status # 200 THEN g
    ELSE IF g.membership.role # "DM"
    THEN [status |-> 403, error |-> "DM role required", membership |-> NoMembership]
    ELSE g

\* an edit rule that lets every member edit every character of the campaign
canEditAnyMember(membership, character, userId) == TRUE

canEdit(membership, character, userId) ==
    membership.role = "DM" \/ (character.ownerId # NullStr /\ character.ownerId = userId)

-----------------------------------------------------------------------------
(* Audit recorder: utils/audit *)

writeAuditLog(d, entityType, entityId, action, campaignId, userId) ==
    [d EXCEPT !.audit = Append(@, [entityType |-> entityType, entityId |-> entityId,
                                   action |-> action, campaignId |-> campaignId,
                                   userId |-> userId])]

-----------------------------------------------------------------------------
(* Campaign routes: routes/campaigns.ts *)

CampaignNames == {"C", "Camp"}        \* "C" is shorter than min(2)

ListCampaigns(d, uid) ==
    LET a == requireAuth(uid) IN
    IF a.status # 200 THEN Fail(d, a.status, a.error) ELSE Ok(d)

\* a write that stores the campaign row alone
CampaignCreateWriteNoMember(d, name, uid) ==
    LET id == d.nextCampaign IN
    [d EXCEPT !.campaigns = @ \cup {[id |-> id, name |-> name, createdById |-> uid]},
              !.nextCampaign = @ + 1]

\* prisma.campaign.create with the nested members.create: one statement, one
\* transaction - the campaign row and the creator's DM row are written together.
CampaignCreateWrite(d, name, uid) ==
    LET id == d.nextCampaign IN
    [d EXCEPT !.campaigns = @ \cup {[id |-> id, name |-> name, createdById |-> uid]},
              !.members = @ \cup {[userId |-> uid, campaignId |-> id, role |-> "DM"]},
              !.nextCampaign = @ + 1]

CreateCampaign(d, uid, name) ==
    LET a == requireAuth(uid) IN
    IF a.status # 200 THEN Fail(d, a.status, a.error)
    ELSE IF Len(name) < MinNameLen THEN Invalid(d)
    ELSE Ok(CampaignCreateWrite(d, name, uid))

GetCampaign(d, uid, id) ==
    LET g == requireCampaignMember(d, uid, id) IN
    IF g.status # 200 THEN Fail(d, g.status, g.error) ELSE Ok(d)

GetCampaignRole(d, uid, id) ==
    LET g == requireCampaignMember(d, uid, id) IN
    IF g.status # 200 THEN Fail(d, g.status, g.error) ELSE Ok(d)

GetCampaignMembers(d, uid, id) ==
    LET g == requireCampaignMember(d, uid, id) IN
    IF g.status # 200 THEN Fail(d, g.status, g.error) ELSE Ok(d)

\* body.role ?? "PLAYER"
RoleOrDefault(body) == IF "role" \in DOMAIN body THEN body.role ELSE "PLAYER"

\* an insert that leaves the row already stored for the pair in place
MemberInsert(members, userId, campaignId, role) ==
    members \cup {[userId |-> userId, campaignId |-> campaignId, role |-> role]}

\* prisma.campaignMember.upsert keyed by (userId, campaignId)
MemberUpsert(members, userId, campaignId, role) ==
    {m \in members : ~(m.userId = userId /\ m.campaignId = campaignId)}
        \cup {[userId |-> userId, campaignId |-> campaignId, role |-> role]}

AddMember(d, uid, id, body) ==
    LET g == requireDM(d, uid, id) IN
    IF g.status # 200 THEN Fail(d, g.status, g.error)
    ELSE IF body.email \notin {EmailOf(u) : u \in d.users}
    THEN Fail(d, 404, "User not found")
    ELSE LET user == CHOOSE u \in d.users : EmailOf(u) = body.email IN
         Ok([d EXCEPT !.members = MemberUpsert(@, user, id, RoleOrDefault(body))])

AddMemberBodies ==
    {[email |-> e] : e \in Emails}
        \cup {[email |-> e, role |-> r] : e \in Emails, r \in {"DM", "PLAYER"}}

-----------------------------------------------------------------------------
(* Character routes: routes/characters.ts *)

Kinds == {"PLAYER", "NPC", "ENEMY"}

\* stats is either a flat map or {baseStats, ...}; only hp is read by the core
StatsInputs == { [hp |-> 1], [baseStats |-> [hp |-> 0]], [growths |-> 1] }

\* baseStats?.hp ?? rawStats?.hp ?? 0
baseHp(stats) ==
    IF "baseStats" \in DOMAIN stats /\ "hp" \in DOMAIN stats.baseStats THEN stats.baseStats.hp
    ELSE IF "hp" \in DOMAIN stats THEN stats.hp
    ELSE 0

\* a stored list is {} when it is null and {list} when it is set; a request
\* carries {list}
NoList == {}

\* body.f ?? dflt, for a field that is never null when present
Field(body, f, dflt) == IF f \in DOMAIN body THEN body[f] ELSE dflt

\* characterSchema / updateSchema: the range checks zod applies
CharacterBodyValid(body, create) ==
    /\ create => {"name", "stats"} \subseteq DOMAIN body
    /\ "name" \in DOMAIN body => Len(body.name) >= MinNameLen
    /\ "level" \in DOMAIN body => body.level >= 1
    /\ "exp" \in DOMAIN body => body.exp >= 0
    /\ "currentHp" \in DOMAIN body => body.currentHp >= 0
    /\ (create /\ "ownerId" \in DOMAIN body) => body.ownerId # NullStr
    /\ (create /\ "className" \in DOMAIN body) => body.className # NullStr

normalizeClassSkills(value) == value     \* the catalog holds trimmed, non-empty strings

RECURSIVE CreateSkillRows(_, _, _)
\* createMany: one row per skill id, ids taken from the sequence
CreateSkillRows(d, characterId, skillIds) ==
    IF skillIds = {} THEN d
    ELSE LET s == CHOOSE x \in skillIds : \A y \in skillIds : x <= y
             d1 == [d EXCEPT !.charSkills = @ \cup {[id |-> d.nextSkillRow,
                                                     characterId |-> characterId,
                                                     skillId |-> s]},
                             !.nextSkillRow = @ + 1]
         IN CreateSkillRows(d1, characterId, skillIds \ {s})

addMissingClassSkills(d, characterId, className) ==
    IF className = NullStr THEN d
    ELSE IF className \notin ClassNames THEN d
    ELSE LET gameClass == CHOOSE c \in GameClasses : c.name = className
             classSkills == normalizeClassSkills(gameClass.skills)
             names == {classSkills[i] : i \in 1..Len(classSkills)}
             availableSkills == {s.id : s \in {x \in Skills : x.name \in names}}
             existingIds == {r.skillId : r \in {x \in d.charSkills : x.characterId = characterId}}
             toCreate == availableSkills \ existingIds
         IN CreateSkillRows(d, characterId, toCreate)

ListCharacters(d, uid, id) ==
    LET g == requireCampaignMember(d, uid, id) IN
    IF g.status # 200 THEN Fail(d, g.status, g.error) ELSE Ok(d)

\* an owner taken from the request whatever the kind
CreateOwnerIdAsSent(body, kind, dmUserId) == Field(body, "ownerId", dmUserId)

\* kind === "PLAYER" ? body.ownerId ?? dm.userId : null
CreateOwnerId(body, kind, dmUserId) ==
    IF kind = "PLAYER" THEN Field(body, "ownerId", dmUserId) ELSE NullStr

CreateCharacter(d, uid, id, body) ==
    LET g == requireDM(d, uid, id) IN
    IF g.status # 200 THEN Fail(d, g.status, g.error)
    ELSE IF ~CharacterBodyValid(body, TRUE) THEN Invalid(d)
    ELSE LET kind == Field(body, "kind", "PLAYER")
             character == [id |-> d.nextCharacter,
                           campaignId |-> id,
                           name |-> body.name,
                           stats |-> body.stats,
                           ownerId |-> CreateOwnerId(body, kind, g.membership.userId),
                           kind |-> kind,
                           className |-> Field(body, "className", NullStr),
                           level |-> Field(body, "level", 1),
                           exp |-> Field(body, "exp", 0),
                           weaponSkills |-> Field(body, "weaponSkills", NoList),
                           currentHp |-> Field(body, "currentHp", baseHp(body.stats)),
                           equippedWeaponItemId |-> NoId]
             d1 == [d EXCEPT !.characters = @ \cup {character}, !.nextCharacter = @ + 1]
             d2 == addMissingClassSkills(d1, character.id, character.className)
         IN Ok(writeAuditLog(d2, "CHARACTER", character.id, "CHARACTER_CREATE",
                             character.campaignId, g.membership.userId))

GetCharacter(d, uid, id) ==
    IF ~Has(d.characters, id) THEN Fail(d, 404, "Character not found")
    ELSE LET g == requireCampaignMember(d, uid, Get(d.characters, id).campaignId) IN
         IF g.status # 200 THEN Fail(d, g.status, g.error) ELSE Ok(d)

\* an owner replaced by whatever the request carries
UpdateOwnerIdAsSent(body, nextKind, existing) == Field(body, "ownerId", existing.ownerId)

\* nextKind === "PLAYER" ? (body.ownerId ?? existing.ownerId) : null
\* (?? falls through on null as well as on undefined)
UpdateOwnerId(body, nextKind, existing) ==
    IF nextKind = "PLAYER"
    THEN (IF "ownerId" \in DOMAIN body /\ body.ownerId # NullStr
          THEN body.ownerId ELSE existing.ownerId)
    ELSE NullStr

UpdateCharacter(d, uid, id, body) ==
    IF ~Has(d.characters, id) THEN Fail(d, 404, "Character not found")
    ELSE LET existing == Get(d.characters, id)
             g == requireDM(d, uid, existing.campaignId) IN
         IF g.status # 200 THEN Fail(d, g.status, g.error)
         ELSE IF ~CharacterBodyValid(body, FALSE) THEN Invalid(d)
         ELSE LET nextKind == Field(body, "kind", existing.kind)
                  character == [existing EXCEPT
                      !.name = Field(body, "name", existing.name),
                      !.stats = Field(body, "stats", existing.stats),
                      !.ownerId = UpdateOwnerId(body, nextKind, existing),
                      !.kind = nextKind,
                      !.className = Field(body, "className", existing.className),
                      !.level = Field(body, "level", existing.level),
                      !.exp = Field(body, "exp", existing.exp),
                      !.weaponSkills = Field(body, "weaponSkills", existing.weaponSkills),
                      !.currentHp = Field(body, "currentHp", existing.currentHp)]
                  d1 == [d EXCEPT !.characters = Replace(@, character)]
                  d2 == addMissingClassSkills(d1, character.id, character.className)
              IN Ok(writeAuditLog(d2, "CHARACTER", character.id, "CHARACTER_UPDATE",
                                  character.campaignId, g.membership.userId))

UpdateHp(d, uid, id, currentHp) ==
    IF ~Has(d.characters, id) THEN Fail(d, 404, "Character not found")
    ELSE LET character == Get(d.characters, id)
             g == requireCampaignMember(d, uid, character.campaignId) IN
         IF g.status # 200 THEN Fail(d, g.status, g.error)
         ELSE IF ~canEdit(g.membership, character, getSessionUserId(uid))
         THEN Fail(d, 403, "Forbidden")
         ELSE IF currentHp < 0 THEN Invalid(d)
         ELSE LET d1 == [d EXCEPT !.characters =
                             Replace(@, [character EXCEPT !.currentHp = currentHp])]
              IN Ok(writeAuditLog(d1, "CHARACTER", id, "HP_UPDATE",
                                  character.campaignId, g.membership.userId))

(* Character skills *)

AddSkill(d, uid, id, skillId) ==
    IF ~Has(d.characters, id) THEN Fail(d, 404, "Character not found")
    ELSE LET character == Get(d.characters, id)
             g == requireDM(d, uid, character.campaignId) IN
         IF g.status # 200 THEN Fail(d, g.status, g.error)
         ELSE IF ~Has(Skills, skillId) THEN Fail(d, 404, "Skill not found")
         ELSE IF \E r \in d.charSkills : r.characterId = id /\ r.skillId = skillId
         THEN Fail(d, 400, "Skill already added")
         ELSE Ok(CreateSkillRows(d, id, {skillId}))

RemoveSkill(d, uid, id, characterSkillId) ==
    IF ~Has(d.characters, id) THEN Fail(d, 404, "Character not found")
    ELSE LET character == Get(d.characters, id)
             g == requireDM(d, uid, character.campaignId) IN
         IF g.status # 200 THEN Fail(d, g.status, g.error)
         ELSE IF ~Has(d.charSkills, characterSkillId)
                 \/ Get(d.charSkills, characterSkillId).characterId # id
         THEN Fail(d, 404, "Skill not found")
         ELSE Ok([d EXCEPT !.charSkills = {r \in @ : r.id # characterSkillId}])

-----------------------------------------------------------------------------
(* Inventory routes: routes/characters.ts *)

InventoryOf(d, characterId) == {r \in d.inventory : r.characterId = characterId}

\* prisma.characterItem.count
InvCount(d, characterId) == Cardinality(InventoryOf(d, characterId))

\* a sortOrder taken from the number of rows
NextSortOrderByCount(d, characterId) == InvCount(d, characterId)

\* prisma.characterItem.aggregate _max.sortOrder, then (max ?? -1) + 1
NextSortOrder(d, characterId) ==
    LET rows == InventoryOf(d, characterId) IN
    IF rows = {} THEN (0 - 1) + 1
    ELSE (CHOOSE m \in {r.sortOrder : r \in rows} :
              \A r \in rows : r.sortOrder <= m) + 1

\* body.uses ?? item.uses ?? null   (a nullable integer is {} or {n})
AddUses(body, item) == IF "uses" \in DOMAIN body THEN {body.uses} ELSE item.uses

\* prisma.characterItem.create followed by the INVENTORY_ADD audit record
InvCreateRow(d, characterId, itemId, sortOrder, uses, campaignId, userId) ==
    LET row == [id |-> d.nextInvRow, characterId |-> characterId, itemId |-> itemId,
                sortOrder |-> sortOrder, uses |-> uses, blessed |-> FALSE]
        d1 == [d EXCEPT !.inventory = @ \cup {row}, !.nextInvRow = @ + 1]
    IN writeAuditLog(d1, "CHARACTER", characterId, "INVENTORY_ADD", campaignId, userId)

\* the checks of POST /characters/:id/inventory up to and including the count
AddInventoryGate(d, uid, id, body) ==
    IF ~Has(d.characters, id) THEN Fail(d, 404, "Character not found")
    ELSE LET character == Get(d.characters, id)
             g == requireDM(d, uid, character.campaignId) IN
         IF g.status # 200 THEN Fail(d, g.status, g.error)
         ELSE IF "uses" \in DOMAIN body /\ body.uses < 0 THEN Invalid(d)
         ELSE IF ~Has(Items, body.itemId) THEN Fail(d, 404, "Item not found")
         ELSE IF InvCount(d, id) >= InventoryCap THEN Fail(d, 400, "Inventory is full")
         ELSE Ok(d)

AddInventory(d, uid, id, body) ==
    LET gate == AddInventoryGate(d, uid, id, body) IN
    IF gate.status # 200 THEN gate
    ELSE Ok(InvCreateRow(d, id, body.itemId, NextSortOrder(d, id),
                         AddUses(body, Get(Items, body.itemId)),
                         Get(d.characters, id).campaignId, uid))

GetInventory(d, uid, id) ==
    IF ~Has(d.characters, id) THEN Fail(d, 404, "Character not found")
    ELSE LET g == requireCampaignMember(d, uid, Get(d.characters, id).campaignId) IN
         IF g.status # 200 THEN Fail(d, g.status, g.error) ELSE Ok(d)

\* a store that leaves the reference in place when the row is deleted
OnDeleteKeepsReference(characters, inventoryId) == characters

\* Character.equippedWeaponItemId is an optional relation to CharacterItem: the
\* store nulls it when the row it names is deleted
OnDeleteInventoryRow(characters, inventoryId) ==
    {IF c.equippedWeaponItemId = inventoryId
     THEN [c EXCEPT !.equippedWeaponItemId = NoId] ELSE c : c \in characters}

RemoveInventory(d, uid, id, inventoryId) ==
    IF ~Has(d.characters, id) THEN Fail(d, 404, "Character not found")
    ELSE LET character == Get(d.characters, id)
             g == requireDM(d, uid, character.campaignId) IN
         IF g.status # 200 THEN Fail(d, g.status, g.error)
         ELSE IF ~Has(d.inventory, inventoryId)
                 \/ Get(d.inventory, inventoryId).characterId # id
         THEN Fail(d, 404, "Inventory item not found")
         ELSE LET d1 == [d EXCEPT !.inventory = {r \in @ : r.id # inventoryId},
                                  !.characters = OnDeleteInventoryRow(@, inventoryId)]
              IN Ok(writeAuditLog(d1, "CHARACTER", id, "INVENTORY_REMOVE",
                                  character.campaignId, g.membership.userId))

\* inventoryUpdateSchema: uses is undefined, null ({}) or an integer >= 0 ({n})
InventoryUpdateValid(body) ==
    "uses" \in DOMAIN body => \A n \in body.uses : n >= 0

UpdateInventory(d, uid, id, inventoryId, body) ==
    IF ~Has(d.characters, id) THEN Fail(d, 404, "Character not found")
    ELSE LET character == Get(d.characters, id)
             g == requireCampaignMember(d, uid, character.campaignId) IN
         IF g.status # 200 THEN Fail(d, g.status, g.error)
         ELSE IF ~canEdit(g.membership, character, getSessionUserId(uid))
         THEN Fail(d, 403, "Forbidden")
         ELSE IF ~InventoryUpdateValid(body) THEN Invalid(d)
         ELSE IF ~Has(d.inventory, inventoryId)
                 \/ Get(d.inventory, inventoryId).characterId # id
         THEN Fail(d, 404, "Inventory item not found")
         ELSE LET inventoryItem == Get(d.inventory, inventoryId)
                  updated == [inventoryItem EXCEPT
                                 !.uses = Field(body, "uses", inventoryItem.uses),
                                 !.blessed = Field(body, "blessed", inventoryItem.blessed)]
                  d1 == [d EXCEPT !.inventory = Replace(@, updated)]
              IN Ok(writeAuditLog(d1, "CHARACTER", id, "INVENTORY_UPDATE",
                                  character.campaignId, g.membership.userId))

(* Inventory reorder *)

SeqToSet(s) == {s[i] : i \in 1..Len(s)}

\* inventory.length === orderedIds.length and orderedIds.every(id => inventoryIds.has(id))
OrderMatchesInventory(d, characterId, orderedIds) ==
    /\ InvCount(d, characterId) = Len(orderedIds)
    /\ \A i \in 1..Len(orderedIds) :
           orderedIds[i] \in {r.id : r \in InventoryOf(d, characterId)}

\* a rewrite that numbers the rows from 1
ApplyOrderOneBased(inventory, orderedIds, i) ==
    {IF \E k \in 1..Len(orderedIds) : orderedIds[k] = r.id
     THEN [r EXCEPT !.sortOrder = CHOOSE k \in 1..Len(orderedIds) : orderedIds[k] = r.id]
     ELSE r : r \in inventory}

RECURSIVE ApplyOrderFrom(_, _, _)
\* the updates of the transaction, in list order: row orderedIds[i] gets sortOrder i-1
ApplyOrderFrom(inventory, orderedIds, i) ==
    IF i > Len(orderedIds) THEN inventory
    ELSE ApplyOrderFrom(
             {IF r.id = orderedIds[i] THEN [r EXCEPT !.sortOrder = i - 1] ELSE r
                  : r \in inventory},
             orderedIds, i + 1)

\* updates sent one by one: those before the failing one stay applied
OrderUpdatesOneByOne(inventory, orderedIds) ==
    [ok |-> \A i \in 1..Len(orderedIds) : Has(inventory, orderedIds[i]),
     inventory |-> ApplyOrderFrom(inventory, orderedIds, 1)]

\* prisma.$transaction([...update]): an update of a missing row aborts the whole batch
OrderTransaction(inventory, orderedIds) ==
    IF \A i \in 1..Len(orderedIds) : Has(inventory, orderedIds[i])
    THEN [ok |-> TRUE, inventory |-> ApplyOrderFrom(inventory, orderedIds, 1)]
    ELSE [ok |-> FALSE, inventory |-> inventory]

\* the checks of PUT /characters/:id/inventory/order, up to the validation read
ReorderGate(d, uid, id, orderedIds) ==
    IF ~Has(d.characters, id) THEN Fail(d, 404, "Character not found")
    ELSE LET character == Get(d.characters, id)
             g == requireCampaignMember(d, uid, character.campaignId) IN
         IF g.status # 200 THEN Fail(d, g.status, g.error)
         ELSE IF ~canEdit(g.membership, character, getSessionUserId(uid))
         THEN Fail(d, 403, "Forbidden")
         ELSE IF Len(orderedIds) > InventoryCap THEN Invalid(d)
         ELSE IF ~OrderMatchesInventory(d, id, orderedIds)
         THEN Fail(d, 400, "Order list does not match inventory")
         ELSE Ok(d)

ReorderCommit(d, uid, id, orderedIds) ==
    LET tx == OrderTransaction(d.inventory, orderedIds) IN
    IF ~tx.ok THEN Fail([d EXCEPT !.inventory = tx.inventory], 500, "Internal Server Error")
    ELSE Ok(writeAuditLog([d EXCEPT !.inventory = tx.inventory], "CHARACTER", id,
                          "INVENTORY_REORDER", Get(d.characters, id).campaignId, uid))

ReorderInventory(d, uid, id, orderedIds) ==
    LET gate == ReorderGate(d, uid, id, orderedIds) IN
    IF gate.status # 200 THEN gate ELSE ReorderCommit(d, uid, id, orderedIds)

(* Equip weapon *)

\* a comparison of the item type that folds no case
ToLowerIdentity(s) == s

ToLower(s) == IF s = "Laguz" THEN "laguz" ELSE s

\* a category test that takes every row for a weapon
IsWeaponRowAnyCategory(d, inventoryId) == TRUE

\* inventoryItem.item.category === "WEAPON"
IsWeaponRow(d, inventoryId) ==
    Get(Items, Get(d.inventory, inventoryId).itemId).category = "WEAPON"

\* an equip that stores the row and writes the audit record first and applies
\* the row, category and laguz checks afterwards
EquipWeaponWriteFirst(d, uid, id, inventoryId) ==
    IF ~Has(d.characters, id) THEN Fail(d, 404, "Character not found")
    ELSE LET character == Get(d.characters, id)
             g == requireCampaignMember(d, uid, character.campaignId) IN
         IF g.status # 200 THEN Fail(d, g.status, g.error)
         ELSE IF ~canEdit(g.membership, character, getSessionUserId(uid))
         THEN Fail(d, 403, "Forbidden")
         ELSE LET d1 == [d EXCEPT !.characters =
                             Replace(@, [character EXCEPT !.equippedWeaponItemId = inventoryId])]
                  d2 == writeAuditLog(d1, "CHARACTER", id, "EQUIPPED_WEAPON_UPDATE",
                                      character.campaignId, g.membership.userId)
              IN IF inventoryId # NoId /\ (~Has(d.inventory, inventoryId)
                         \/ Get(d.inventory, inventoryId).characterId # id)
                 THEN Fail(d2, 404, "Inventory item not found")
                 ELSE IF inventoryId # NoId /\ ~IsWeaponRow(d, inventoryId)
                 THEN Fail(d2, 400, "Only weapons can be equipped")
                 ELSE IF inventoryId # NoId
                         /\ LET item == Get(Items, Get(d.inventory, inventoryId).itemId)
                                restriction == IF ToLower(item.type) = "laguz"
                                               THEN item.classRestriction ELSE NullStr
                            IN restriction # NullStr /\ g.membership.role # "DM"
                               /\ character.className # restriction
                 THEN Fail(d2, 403, "Laguz weapons are restricted")
                 ELSE Ok(d2)

EquipWeapon(d, uid, id, inventoryId) ==
    IF ~Has(d.characters, id) THEN Fail(d, 404, "Character not found")
    ELSE LET character == Get(d.characters, id)
             g == requireCampaignMember(d, uid, character.campaignId) IN
         IF g.status # 200 THEN Fail(d, g.status, g.error)
         ELSE IF ~canEdit(g.membership, character, getSessionUserId(uid))
         THEN Fail(d, 403, "Forbidden")
         ELSE IF inventoryId # NoId /\ (~Has(d.inventory, inventoryId)
                    \/ Get(d.inventory, inventoryId).characterId # id)
         THEN Fail(d, 404, "Inventory item not found")
         ELSE IF inventoryId # NoId /\ ~IsWeaponRow(d, inventoryId)
         THEN Fail(d, 400, "Only weapons can be equipped")
         ELSE IF inventoryId # NoId
                 /\ LET item == Get(Items, Get(d.inventory, inventoryId).itemId)
                        restriction == IF ToLower(item.type) = "laguz"
                                       THEN item.classRestriction ELSE NullStr
                    IN restriction # NullStr /\ g.membership.role # "DM"
                       /\ character.className # restriction
         THEN Fail(d, 403, "Laguz weapons are restricted")
         ELSE LET d1 == [d EXCEPT !.characters =
                             Replace(@, [character EXCEPT !.equippedWeaponItemId = inventoryId])]
              IN Ok(writeAuditLog(d1, "CHARACTER", id, "EQUIPPED_WEAPON_UPDATE",
                                  character.campaignId, g.membership.userId))

-----------------------------------------------------------------------------
(* Map routes: routes/maps.ts *)

MaxTileCount == 200
Sides == 100

\* buildEmptyGrid(rows, cols)
buildEmptyGrid(rows, cols) == [i \in 1..rows |-> [j \in 1..cols |-> NullStr]]

\* a size check that counts the rows and never looks into them
GridSizeOkRowsOnly(grid, rows, cols) == Len(grid) = rows

\* a size check that accepts every grid
GridSizeOkAnyGrid(grid, rows, cols) == TRUE

\* assertGridSize(grid, rows, cols): TRUE when it does not throw
GridSizeOk(grid, rows, cols) ==
    /\ Len(grid) = rows
    /\ ~(\E i \in 1..Len(grid) : Len(grid[i]) # cols)

TileCountValid(body) ==
    /\ "tileCountX" \in DOMAIN body =>
           body.tileCountX >= MinTileCount /\ body.tileCountX <= MaxTileCount
    /\ "tileCountY" \in DOMAIN body =>
           body.tileCountY >= MinTileCount /\ body.tileCountY <= MaxTileCount

\* mapSchema, with its refine: imageUrl or tileGrid
MapCreateValid(body) ==
    /\ "name" \in DOMAIN body /\ Len(body.name) >= MinNameLen
    /\ TileCountValid(body)
    /\ "imageUrl" \in DOMAIN body \/ "tileGrid" \in DOMAIN body

ListMaps(d, uid, id) ==
    LET g == requireCampaignMember(d, uid, id) IN
    IF g.status # 200 THEN Fail(d, g.status, g.error) ELSE Ok(d)

CreateMap(d, uid, id, body) ==
    LET g == requireDM(d, uid, id) IN
    IF g.status # 200 THEN Fail(d, g.status, g.error)
    ELSE IF ~MapCreateValid(body) THEN Invalid(d)
    ELSE LET tileCountX == Field(body, "tileCountX", DefaultTileCount)
             tileCountY == Field(body, "tileCountY", DefaultTileCount)
             tileGrid == Field(body, "tileGrid", buildEmptyGrid(tileCountY, tileCountX))
         IN IF ~GridSizeOk(tileGrid, tileCountY, tileCountX)
            THEN Fail(d, 400, "Tile grid does not match tile counts")
            ELSE LET map == [id |-> d.nextMap, campaignId |-> id, name |-> body.name,
                             imageUrl |-> Field(body, "imageUrl", NullStr),
                             tileCountX |-> tileCountX, tileCountY |-> tileCountY,
                             tileGrid |-> tileGrid]
                     d1 == [d EXCEPT !.maps = @ \cup {map}, !.nextMap = @ + 1]
                 IN Ok(writeAuditLog(d1, "MAP", map.id, "MAP_CREATE", map.campaignId,
                                     g.membership.userId))

GetMap(d, uid, id) ==
    IF ~Has(d.maps, id) THEN Fail(d, 404, "Map not found")
    ELSE LET g == requireCampaignMember(d, uid, Get(d.maps, id).campaignId) IN
         IF g.status # 200 THEN Fail(d, g.status, g.error) ELSE Ok(d)

UpdateMap(d, uid, id, body) ==
    IF ~Has(d.maps, id) THEN Fail(d, 404, "Map not found")
    ELSE LET map == Get(d.maps, id)
             g == requireDM(d, uid, map.campaignId) IN
         IF g.status # 200 THEN Fail(d, g.status, g.error)
         ELSE IF ~TileCountValid(body) THEN Invalid(d)
         ELSE LET tileCountX == Field(body, "tileCountX", map.tileCountX)
                  tileCountY == Field(body, "tileCountY", map.tileCountY)
                  tileGrid == Field(body, "tileGrid", map.tileGrid)
              IN IF ~GridSizeOk(tileGrid, tileCountY, tileCountX)
                 THEN Fail(d, 400, "Tile grid does not match tile counts")
                 ELSE LET updated == [map EXCEPT
                                         !.imageUrl = Field(body, "imageUrl", map.imageUrl),
                                         !.tileCountX = tileCountX,
                                         !.tileCountY = tileCountY,
                                         !.tileGrid = tileGrid]
                          d1 == [d EXCEPT !.maps = Replace(@, updated)]
                      IN Ok(writeAuditLog(d1, "MAP", updated.id, "MAP_UPDATE",
                                          updated.campaignId, g.membership.userId))

(* Roll logs *)

\* Math.floor(Math.random() * sides) + 1, for the draw r = floor(random * sides)
rollDie(r) == r + 1

\* a mean that drops the half
RoundHalfDown(n) == n \div 2

\* Math.round(n / 2) for n >= 0: halves round up
RoundHalf(n) == (n + 1) \div 2

RollResult(type, rollA, rollB) ==
    IF type = "COMBAT" THEN RoundHalf(rollA + rollB) ELSE rollA

ListRolls(d, uid, id) ==
    IF ~Has(d.maps, id) THEN Fail(d, 404, "Map not found")
    ELSE LET g == requireCampaignMember(d, uid, Get(d.maps, id).campaignId) IN
         IF g.status # 200 THEN Fail(d, g.status, g.error) ELSE Ok(d)

\* ra, rb: the two draws floor(random * 100) the request would consume
CreateRoll(d, uid, id, type, ra, rb) ==
    IF ~Has(d.maps, id) THEN Fail(d, 404, "Map not found")
    ELSE LET g == requireCampaignMember(d, uid, Get(d.maps, id).campaignId) IN
         IF g.status # 200 THEN Fail(d, g.status, g.error)
         ELSE IF type \notin {"REGULAR", "COMBAT"} THEN Invalid(d)
         ELSE LET rollA == rollDie(ra)
                  rollB == rollDie(rb)
              IN Ok([d EXCEPT !.rolls = Append(@, [mapId |-> id,
                                                   userId |-> g.membership.userId,
                                                   type |-> type,
                                                   result |-> RollResult(type, rollA, rollB)])])

(* Audit log reads: routes/audit *)

GetMapAudit(d, uid, id) ==
    IF ~Has(d.maps, id) THEN Fail(d, 404, "Map not found")
    ELSE LET g == requireDM(d, uid, Get(d.maps, id).campaignId) IN
         IF g.status # 200 THEN Fail(d, g.status, g.error) ELSE Ok(d)

GetCharacterAudit(d, uid, id) ==
    IF ~Has(d.characters, id) THEN Fail(d, 404, "Character not found")
    ELSE LET g == requireDM(d, uid, Get(d.characters, id).campaignId) IN
         IF g.status # 200 THEN Fail(d, g.status, g.error) ELSE Ok(d)

(* Catalog reads and /auth/me: requireAuth only *)

GetMe(d, uid) ==
    LET a == requireAuth(uid) IN
    IF a.status # 200 THEN Fail(d, a.status, a.error) ELSE Ok(d)

ListClasses(d, uid) ==
    LET a == requireAuth(uid) IN
    IF a.status # 200 THEN Fail(d, a.status, a.error) ELSE Ok(d)

ListItems(d, uid) ==
    LET a == requireAuth(uid) IN
    IF a.status # 200 THEN Fail(d, a.status, a.error) ELSE Ok(d)

ListSkills(d, uid) ==
    LET a == requireAuth(uid) IN
    IF a.status # 200 THEN Fail(d, a.status, a.error) ELSE Ok(d)

-----------------------------------------------------------------------------
(* Token routes: routes/tokens.ts (the version that binds a character) *)

ListTokens(d, uid, id) ==
    IF ~Has(d.maps, id) THEN Fail(d, 404, "Map not found")
    ELSE LET g == requireCampaignMember(d, uid, Get(d.maps, id).campaignId) IN
         IF g.status # 200 THEN Fail(d, g.status, g.error) ELSE Ok(d)

\* tokenSchema / updateSchema: x and y are integers >= 0
TokenBodyValid(body, create) ==
    /\ create => {"x", "y", "characterId"} \subseteq DOMAIN body
    /\ "x" \in DOMAIN body => body.x >= 0
    /\ "y" \in DOMAIN body => body.y >= 0

\* a check that only looks for the character
CharacterInAnyCampaign(d, characterId, campaignId) == Has(d.characters, characterId)

\* !character || character.campaignId !== map.campaignId
CharacterInCampaign(d, characterId, campaignId) ==
    Has(d.characters, characterId) /\ Get(d.characters, characterId).campaignId = campaignId

\* prisma.token.findUnique({ where: { characterId } })
TokenOfCharacter(d, characterId) == {t \in d.tokens : t.characterId = characterId}

\* Token.characterId is a unique key of the table (findUnique is keyed by it):
\* a write that would give two rows the same characterId is refused by the store
TokenUniqueOk(tokens, row) ==
    ~(\E t \in tokens : t.id # row.id /\ t.characterId = row.characterId)

\* checks that do not look for a token the character already has
CreateTokenGateNoLookup(d, uid, id, body) ==
    IF ~Has(d.maps, id) THEN Fail(d, 404, "Map not found")
    ELSE LET map == Get(d.maps, id)
             g == requireDM(d, uid, map.campaignId) IN
         IF g.status # 200 THEN Fail(d, g.status, g.error)
         ELSE IF ~TokenBodyValid(body, TRUE) THEN Invalid(d)
         ELSE IF ~CharacterInCampaign(d, body.characterId, map.campaignId)
         THEN Fail(d, 400, "Character not found in campaign")
         ELSE Ok(d)

\* the checks of POST /maps/:id/tokens
CreateTokenGate(d, uid, id, body) ==
    IF ~Has(d.maps, id) THEN Fail(d, 404, "Map not found")
    ELSE LET map == Get(d.maps, id)
             g == requireDM(d, uid, map.campaignId) IN
         IF g.status # 200 THEN Fail(d, g.status, g.error)
         ELSE IF ~TokenBodyValid(body, TRUE) THEN Invalid(d)
         ELSE IF ~CharacterInCampaign(d, body.characterId, map.campaignId)
         THEN Fail(d, 400, "Character not found in campaign")
         ELSE IF TokenOfCharacter(d, body.characterId) # {}
         THEN Fail(d, 400, "Character already has a token")
         ELSE Ok(d)

\* prisma.token.create
CreateTokenWrite(d, id, body) ==
    LET token == [id |-> d.nextToken, mapId |-> id, characterId |-> body.characterId,
                  x |-> body.x, y |-> body.y]
    IN IF ~TokenUniqueOk(d.tokens, token)
       THEN Fail(d, 500, "Unique constraint failed")
       ELSE Ok([d EXCEPT !.tokens = @ \cup {token}, !.nextToken = @ + 1])

CreateToken(d, uid, id, body) ==
    LET gate == CreateTokenGate(d, uid, id, body) IN
    IF gate.status # 200 THEN gate ELSE CreateTokenWrite(d, id, body)

\* the checks of PUT /tokens/:id; existing is the row (with its map) read first
UpdateTokenGate(d, uid, id, body) ==
    IF ~Has(d.tokens, id) THEN Fail(d, 404, "Token not found")
    ELSE LET existing == Get(d.tokens, id)
             campaignId == Get(d.maps, existing.mapId).campaignId
             g == requireDM(d, uid, campaignId) IN
         IF g.status # 200 THEN Fail(d, g.status, g.error)
         ELSE IF ~TokenBodyValid(body, FALSE) THEN Invalid(d)
         ELSE IF "characterId" \in DOMAIN body /\ body.characterId # existing.characterId
                 /\ ~CharacterInCampaign(d, body.characterId, campaignId)
         THEN Fail(d, 400, "Character not found in campaign")
         ELSE IF "characterId" \in DOMAIN body /\ body.characterId # existing.characterId
                 /\ TokenOfCharacter(d, body.characterId) # {}
         THEN Fail(d, 400, "Character already has a token")
         ELSE Ok(d)

\* prisma.token.update: every field is body.f ?? existing.f, existing being the
\* row as it was read by the gate
UpdateTokenWrite(d, existing, body) ==
    LET token == [existing EXCEPT !.x = Field(body, "x", existing.x),
                                  !.y = Field(body, "y", existing.y),
                                  !.characterId = Field(body, "characterId",
                                                        existing.characterId)]
    IN IF ~Has(d.tokens, existing.id) THEN Fail(d, 500, "Record not found")
       ELSE IF ~TokenUniqueOk(d.tokens, token)
       THEN Fail(d, 500, "Unique constraint failed")
       ELSE Ok([d EXCEPT !.tokens = Replace(@, token)])

UpdateToken(d, uid, id, body) ==
    LET gate == UpdateTokenGate(d, uid, id, body) IN
    IF gate.status # 200 THEN gate ELSE UpdateTokenWrite(d, Get(d.tokens, id), body)

\* a token:move that is refused for want of a session
MoveTokenRefused(d, tokenId, x, y) == Fail(d, 401, "Unauthorized")

\* socket.ts token:move: prisma.token.update({ where: { id: tokenId }, data: { x, y } })
\* with no session, membership or range check
MoveToken(d, tokenId, x, y) ==
    IF ~Has(d.tokens, tokenId) THEN Fail(d, 500, "Record not found")
    ELSE Ok([d EXCEPT !.tokens = Replace(@, [Get(d.tokens, tokenId) EXCEPT !.x = x, !.y = y])])

-----------------------------------------------------------------------------
(* Preset routes: routes/presets.ts *)

\* presetSchema; on update only name is optional (presetSchema.partial({ name: true }))
PresetBodyValid(body, create) ==
    /\ {"tileCountX", "tileCountY", "tileGrid"} \subseteq DOMAIN body
    /\ create => "name" \in DOMAIN body
    /\ "name" \in DOMAIN body => Len(body.name) >= MinNameLen
    /\ TileCountValid(body)

ListPresets(d, uid, id) ==
    LET g == requireCampaignMember(d, uid, id) IN
    IF g.status # 200 THEN Fail(d, g.status, g.error) ELSE Ok(d)

CreatePreset(d, uid, id, body) ==
    LET g == requireDM(d, uid, id) IN
    IF g.status # 200 THEN Fail(d, g.status, g.error)
    ELSE IF ~PresetBodyValid(body, TRUE) THEN Invalid(d)
    ELSE IF ~GridSizeOk(body.tileGrid, body.tileCountY, body.tileCountX)
    THEN Fail(d, 400, "Tile grid does not match tile counts")
    ELSE Ok([d EXCEPT !.presets = @ \cup {[id |-> d.nextPreset, campaignId |-> id,
                                           name |-> body.name,
                                           tileCountX |-> body.tileCountX,
                                           tileCountY |-> body.tileCountY,
                                           tileGrid |-> body.tileGrid]},
                      !.nextPreset = @ + 1])

GetPreset(d, uid, id) ==
    IF ~Has(d.presets, id) THEN Fail(d, 404, "Preset not found")
    ELSE LET g == requireCampaignMember(d, uid, Get(d.presets, id).campaignId) IN
         IF g.status # 200 THEN Fail(d, g.status, g.error) ELSE Ok(d)

UpdatePreset(d, uid, id, body) ==
    IF ~Has(d.presets, id) THEN Fail(d, 404, "Preset not found")
    ELSE LET existing == Get(d.presets, id)
             g == requireDM(d, uid, existing.campaignId) IN
         IF g.status # 200 THEN Fail(d, g.status, g.error)
         ELSE IF ~PresetBodyValid(body, FALSE) THEN Invalid(d)
         ELSE IF ~GridSizeOk(body.tileGrid, body.tileCountY, body.tileCountX)
         THEN Fail(d, 400, "Tile grid does not match tile counts")
         ELSE Ok([d EXCEPT !.presets = Replace(@, [existing EXCEPT
                                !.name = Field(body, "name", existing.name),
                                !.tileCountX = body.tileCountX,
                                !.tileCountY = body.tileCountY,
                                !.tileGrid = body.tileGrid])])

DeletePreset(d, uid, id) ==
    IF ~Has(d.presets, id) THEN Fail(d, 404, "Preset not found")
    ELSE LET g == requireDM(d, uid, Get(d.presets, id).campaignId) IN
         IF g.status # 200 THEN Fail(d, g.status, g.error)
         ELSE Ok([d EXCEPT !.presets = {r \in @ : r.id # id}])

-----------------------------------------------------------------------------
(* Tileset routes: routes/tilesets.ts *)

MinTileSize == 8
MaxTileSize == 256
MaxColumns == 512

\* tileSetSchema / tileSetUploadSchema ranges
TileSetBodyValid(body) ==
    /\ body.tileSizeX >= MinTileSize /\ body.tileSizeX <= MaxTileSize
    /\ body.tileSizeY >= MinTileSize /\ body.tileSizeY <= MaxTileSize
    /\ body.columns >= 1 /\ body.columns <= MaxColumns
    /\ body.rows >= 1 /\ body.rows <= MaxColumns

ListTileSets(d, uid, id) ==
    LET g == requireCampaignMember(d, uid, id) IN
    IF g.status # 200 THEN Fail(d, g.status, g.error) ELSE Ok(d)

\* prisma.tileSet.create with nested tiles.create: the tileset and its tiles
\* are written together; tiles is the number of Tile rows
TileSetWrite(d, campaignId, body, tiles) ==
    [d EXCEPT !.tileSets = @ \cup {[id |-> d.nextTileSet, campaignId |-> campaignId,
                                    columns |-> body.columns, rows |-> body.rows,
                                    tileSizeX |-> body.tileSizeX,
                                    tileSizeY |-> body.tileSizeY,
                                    tiles |-> tiles]},
              !.nextTileSet = @ + 1]

\* POST /campaigns/:id/tilesets (JSON): body.tiles is optional
CreateTileSet(d, uid, id, body) ==
    LET g == requireDM(d, uid, id) IN
    IF g.status # 200 THEN Fail(d, g.status, g.error)
    ELSE IF ~TileSetBodyValid(body) THEN Invalid(d)
    ELSE Ok(TileSetWrite(d, id, body, Field(body, "tiles", 0)))

\* POST /campaigns/:id/tilesets/upload; req carries the multipart flag, the file's
\* pixel size (or no file) and the form fields
UploadTileSet(d, uid, id, req) ==
    LET g == requireDM(d, uid, id) IN
    IF g.status # 200 THEN Fail(d, g.status, g.error)
    ELSE IF ~req.multipart THEN Fail(d, 400, "Multipart form required")
    ELSE IF ~req.hasFile THEN Fail(d, 400, "Tileset image is required")
    ELSE IF ~TileSetBodyValid(req.fields) THEN Fail(d, 400, "Invalid upload fields")
    ELSE IF req.fields.columns * req.fields.rows > MAX_TILES
    THEN Fail(d, 400, "Tileset too large")
    ELSE IF req.width # req.fields.columns * req.fields.tileSizeX
            \/ req.height # req.fields.rows * req.fields.tileSizeY
    THEN Fail(d, 400, "Tileset image dimensions do not match")
    ELSE Ok(TileSetWrite(d, id, req.fields, req.fields.columns * req.fields.rows))

GetTileSet(d, uid, id) ==
    IF ~Has(d.tileSets, id) THEN Fail(d, 404, "Tileset not found")
    ELSE LET g == requireCampaignMember(d, uid, Get(d.tileSets, id).campaignId) IN
         IF g.status # 200 THEN Fail(d, g.status, g.error) ELSE Ok(d)

-----------------------------------------------------------------------------
(* Initial store and seeded worlds.  A seeded world is the store a script   *)
(* of requests leaves behind, so it is a store the program can be in.       *)

EmptyDb ==
    [users |-> Users,
     campaigns |-> {}, members |-> {}, characters |-> {}, inventory |-> {},
     charSkills |-> {}, maps |-> {}, tokens |-> {}, presets |-> {}, tileSets |-> {},
     rolls |-> <<>>, audit |-> <<>>,
     nextCampaign |-> 1, nextCharacter |-> 1, nextInvRow |-> 1, nextSkillRow |-> 1,
     nextMap |-> 1, nextToken |-> 1, nextPreset |-> 1, nextTileSet |-> 1]

Opt(f, S) == {<<>>} \cup {[k \in {f} |-> v] : v \in S}

Grid5 == buildEmptyGrid(MinTileCount, MinTileCount)

\* Campaign 1: u1 is DM, u2 a PLAYER; campaign 2 belongs to u3.
\* Character 1 (class Cat) is owned by u2, character 2 by u3, who is no member
\* of campaign 1; character 3 is an NPC of campaign 2.
SeedCampaigns ==
    LET d1 == CreateCampaign(EmptyDb, "u1", "Camp").db
        d2 == AddMember(d1, "u1", 1, [email |-> "u2", role |-> "PLAYER"]).db
    IN CreateCampaign(d2, "u3", "Other").db

SeedCharacters ==
    LET d1 == CreateCharacter(SeedCampaigns, "u1", 1,
                  [name |-> "Ike", stats |-> [hp |-> 1], ownerId |-> "u2",
                   className |-> "Cat"]).db
        d2 == CreateCharacter(d1, "u1", 1,
                  [name |-> "Soren", stats |-> [hp |-> 1], ownerId |-> "u3"]).db
    IN CreateCharacter(d2, "u3", 2,
                  [name |-> "Bandit", stats |-> [hp |-> 1], kind |-> "NPC"]).db

\* Character 1 holds a sword (row 1, equipped), a staff (row 2) and a laguz
\* weapon (row 3); character 2 holds a sword (row 4).
SeedInventory ==
    LET d1 == AddInventory(SeedCharacters, "u1", 1, [itemId |-> 1]).db
        d2 == AddInventory(d1, "u1", 1, [itemId |-> 2]).db
        d3 == AddInventory(d2, "u1", 1, [itemId |-> 3]).db
        d4 == AddInventory(d3, "u1", 2, [itemId |-> 1]).db
    IN EquipWeapon(d4, "u2", 1, 1).db

\* Map 1, token 1 (bound to character 1), preset 1 and tileset 1 in campaign 1.
SeedWorld ==
    LET d1 == CreateMap(SeedInventory, "u1", 1, [name |-> "Field", tileGrid |-> Grid5,
                  tileCountX |-> MinTileCount, tileCountY |-> MinTileCount]).db
        d2 == CreateToken(d1, "u1", 1, [x |-> 0, y |-> 0, characterId |-> 1]).db
        d3 == CreatePreset(d2, "u1", 1, [name |-> "Plain", tileGrid |-> Grid5,
                  tileCountX |-> MinTileCount, tileCountY |-> MinTileCount]).db
    IN CreateTileSet(d3, "u1", 1, [columns |-> 1, rows |-> 1, tileSizeX |-> MinTileSize,
                                   tileSizeY |-> MinTileSize]).db

Idle == [op |-> "none", caller |-> NoUser, id |-> NoId, sub |-> NoId,
         status |-> 0, error |-> ""]

WithinBounds(d) ==
    /\ d.nextCampaign <= MaxCampaigns + 1
    /\ d.nextCharacter <= MaxCharacters + 1
    /\ d.nextInvRow <= MaxInvRows + 1
    /\ d.nextSkillRow <= MaxSkillRows + 1
    /\ d.nextMap <= MaxMaps + 1
    /\ d.nextToken <= MaxTokens + 1
    /\ d.nextPreset <= MaxPresets + 1
    /\ d.nextTileSet <= MaxTileSets + 1

Init ==
    /\ db = SeedWorld
    /\ resp = Idle
    /\ budget = MaxRequests
    /\ pending = {}

-----------------------------------------------------------------------------
(* Requests.  Ids named by a request are the ids of the rows that exist and  *)
(* one id that names no row.                                                 *)

Ids(table, next) == {r.id : r \in table} \cup {next}

IntInputs == (0 - 1)..MaxCoord       \* -1 is outside every schema's range

BaseCharacter == [name |-> "Ike", stats |-> [hp |-> 1]]

CharacterCreateBodies ==
    {BaseCharacter @@ k @@ o @@ c :
        k \in Opt("kind", Kinds), o \in Opt("ownerId", {"u2", "u3"}),
        c \in Opt("className", {"Cat"})}
    \cup {[name |-> "Ike", stats |-> s] @@ h :
            s \in StatsInputs, h \in Opt("currentHp", {0 - 1, 0})}
    \cup {[name |-> "I", stats |-> [hp |-> 1]], [name |-> "Ike"],
          BaseCharacter @@ [level |-> 0], BaseCharacter @@ [level |-> 2]}

CharacterUpdateBodies ==
    {k @@ o @@ c :
        k \in Opt("kind", Kinds), o \in Opt("ownerId", {"u1", "u3", NullStr}),
        c \in Opt("className", {"Fighter", NullStr})}
    \cup {[name |-> n] : n \in {"I", "Mist"}}
    \cup {[stats |-> s] : s \in StatsInputs}
    \cup {[level |-> l] : l \in {0, 2}}
    \cup {[currentHp |-> h] : h \in IntInputs}

InventoryAddBodies ==
    {[itemId |-> i] @@ u : i \in ItemIds \cup {NoId}, u \in Opt("uses", IntInputs)}

InventoryUpdateBodies ==
    {u @@ b : u \in Opt("uses", {{}, {0 - 1}, {1}}),
              b \in Opt("blessed", {TRUE})}
    \cup {[blessed |-> FALSE]}

\* every list of at most MaxOrderLen ids drawn from S
MaxOrderLen == 3
SeqsUpTo(S, n) == UNION {[1..k -> S] : k \in 0..n}

\* the ids of rows by ascending sortOrder (ties by id)
RECURSIVE IdsBySortOrder(_)
IdsBySortOrder(rows) ==
    IF rows = {} THEN <<>>
    ELSE LET first == CHOOSE r \in rows : \A q \in rows :
                          \/ r.sortOrder < q.sortOrder
                          \/ (r.sortOrder = q.sortOrder /\ r.id <= q.id)
         IN <<first.id>> \o IdsBySortOrder(rows \ {first})

\* the stored order of character id's rows, as a list of their ids
StoredOrder(d, id) == IdsBySortOrder(InventoryOf(d, id))

\* the orders a request may carry for character id: the stored order, its
\* reverse, the stored order with one id repeated, with a foreign id, with its
\* last id dropped, and a list longer than any inventory
OrderSamples(d, id) ==
    LET byOrder == StoredOrder(d, id)
        n == Len(byOrder)
    IN {byOrder, [i \in 1..n |-> byOrder[n + 1 - i]],
        [i \in 1..n |-> IF i = 2 THEN byOrder[1] ELSE byOrder[i]],
        [i \in 1..n |-> IF i = 1 THEN d.nextInvRow ELSE byOrder[i]],
        [i \in 1..(IF n = 0 THEN 0 ELSE n - 1) |-> byOrder[i]],
        [i \in 1..(InventoryCap + 1) |-> d.nextInvRow]}

\* every list of at most MaxOrderLen ids over the character's rows and one
\* foreign id
OrderInputs(d, id) ==
    SeqsUpTo({r.id : r \in InventoryOf(d, id)} \cup {d.nextInvRow}, MaxOrderLen)

GridInputs ==
    {Grid5,
     buildEmptyGrid(MinTileCount, MinTileCount + 1),
     buildEmptyGrid(MinTileCount + 1, MinTileCount),
     [Grid5 EXCEPT ![1] = <<NullStr>>],
     [Grid5 EXCEPT ![1][1] = "tile"]}

TileCountInputs == {MinTileCount - 1, MinTileCount, MinTileCount + 1}

MapCreateBodies ==
    {[name |-> "Field"] @@ x @@ y @@ g :
        x \in Opt("tileCountX", TileCountInputs),
        y \in Opt("tileCountY", {MinTileCount}), g \in Opt("tileGrid", GridInputs)}
    \cup {[name |-> "F", imageUrl |-> "http://img"],
          [name |-> "Field", imageUrl |-> "http://img"]}

MapUpdateBodies ==
    {x @@ y @@ g :
        x \in Opt("tileCountX", TileCountInputs),
        y \in Opt("tileCountY", {MinTileCount + 1}), g \in Opt("tileGrid", GridInputs)}
    \cup {[imageUrl |-> "http://img"]}

PresetBodies ==
    {[name |-> "Plain"] @@ x @@ y @@ g :
        x \in Opt("tileCountX", TileCountInputs),
        y \in Opt("tileCountY", {MinTileCount}), g \in Opt("tileGrid", GridInputs)}
    \cup {[tileCountX |-> MinTileCount, tileCountY |-> MinTileCount, tileGrid |-> g] :
            g \in {Grid5, [Grid5 EXCEPT ![1][1] = "tile"]}}

TokenCreateBodies ==
    {[x |-> x, y |-> 0, characterId |-> c] : x \in IntInputs, c \in Ids(db.characters, db.nextCharacter)}
    \cup {[x |-> 0, y |-> 0 - 1, characterId |-> 1], [x |-> 0, y |-> 0]}

TokenUpdateBodies ==
    {x @@ y @@ c : x \in Opt("x", IntInputs), y \in Opt("y", {MaxCoord}),
                   c \in Opt("characterId", Ids(db.characters, db.nextCharacter))}

TileSetBodies ==
    {[columns |-> c, rows |-> r, tileSizeX |-> t, tileSizeY |-> MinTileSize] @@ n :
        c \in {1, 65}, r \in {1, 64}, t \in {MinTileSize - 1, MinTileSize},
        n \in Opt("tiles", {1})}

UploadRequests ==
    {[multipart |-> TRUE, hasFile |-> TRUE, width |-> w, height |-> MinTileSize * f.rows,
      fields |-> f] : w \in {MinTileSize, 65 * MinTileSize}, f \in TileSetBodies}
    \cup {[multipart |-> m, hasFile |-> h, width |-> MinTileSize, height |-> MinTileSize,
           fields |-> [columns |-> 1, rows |-> 1, tileSizeX |-> MinTileSize,
                       tileSizeY |-> MinTileSize]] : m, h \in BOOLEAN}

SampleDraws == {0, Sides - 1}

-----------------------------------------------------------------------------
(* Actions: one request answered by its handler, start to end *)

\* the reply is recorded with the request it answers; sent holds the fields of
\* the request body a property reads
AnswerWith(op, uid, id, sub, out, sent) ==
    /\ WithinBounds(out.db)
    /\ db' = out.db
    /\ resp' = [op |-> op, caller |-> uid, id |-> id, sub |-> sub,
                status |-> out.status, error |-> out.error] @@ sent
    /\ budget' = budget - 1
    /\ UNCHANGED pending

Answer(op, uid, id, sub, out) == AnswerWith(op, uid, id, sub, out, <<>>)

DoGetMe ==
    /\ budget > 0
    /\ \E uid \in Callers :
           Answer("GetMe", uid, NoId, NoId, GetMe(db, uid))

DoListClasses ==
    /\ budget > 0
    /\ \E uid \in Callers :
           Answer("ListClasses", uid, NoId, NoId, ListClasses(db, uid))

DoListItems ==
    /\ budget > 0
    /\ \E uid \in Callers :
           Answer("ListItems", uid, NoId, NoId, ListItems(db, uid))

DoListSkills ==
    /\ budget > 0
    /\ \E uid \in Callers :
           Answer("ListSkills", uid, NoId, NoId, ListSkills(db, uid))

DoListCampaigns ==
    /\ budget > 0
    /\ \E uid \in Callers :
           Answer("ListCampaigns", uid, NoId, NoId, ListCampaigns(db, uid))

DoCreateCampaign ==
    /\ budget > 0
    /\ \E uid \in Callers, name \in CampaignNames :
           Answer("CreateCampaign", uid, NoId, NoId, CreateCampaign(db, uid, name))

DoGetCampaign ==
    /\ budget > 0
    /\ \E uid \in Callers, id \in Ids(db.campaigns, db.nextCampaign) :
           Answer("GetCampaign", uid, id, NoId, GetCampaign(db, uid, id))

DoGetCampaignRole ==
    /\ budget > 0
    /\ \E uid \in Callers, id \in Ids(db.campaigns, db.nextCampaign) :
           Answer("GetCampaignRole", uid, id, NoId, GetCampaignRole(db, uid, id))

DoGetCampaignMembers ==
    /\ budget > 0
    /\ \E uid \in Callers, id \in Ids(db.campaigns, db.nextCampaign) :
           Answer("GetCampaignMembers", uid, id, NoId, GetCampaignMembers(db, uid, id))

DoAddMember ==
    /\ budget > 0
    /\ \E uid \in Callers, id \in Ids(db.campaigns, db.nextCampaign), body \in AddMemberBodies :
           Answer("AddMember", uid, id, NoId, AddMember(db, uid, id, body))

DoListCharacters ==
    /\ budget > 0
    /\ \E uid \in Callers, id \in Ids(db.campaigns, db.nextCampaign) :
           Answer("ListCharacters", uid, id, NoId, ListCharacters(db, uid, id))

DoCreateCharacter ==
    /\ budget > 0
    /\ \E uid \in Callers, id \in Ids(db.campaigns, db.nextCampaign), body \in CharacterCreateBodies :
           Answer("CreateCharacter", uid, id, NoId, CreateCharacter(db, uid, id, body))

DoGetCharacter ==
    /\ budget > 0
    /\ \E uid \in Callers, id \in Ids(db.characters, db.nextCharacter) :
           Answer("GetCharacter", uid, id, NoId, GetCharacter(db, uid, id))

DoUpdateCharacter ==
    /\ budget > 0
    /\ \E uid \in Callers, id \in Ids(db.characters, db.nextCharacter), body \in CharacterUpdateBodies :
           Answer("UpdateCharacter", uid, id, NoId, UpdateCharacter(db, uid, id, body))

DoUpdateHp ==
    /\ budget > 0
    /\ \E uid \in Callers, id \in Ids(db.characters, db.nextCharacter), hp \in IntInputs :
           Answer("UpdateHp", uid, id, NoId, UpdateHp(db, uid, id, hp))

DoAddSkill ==
    /\ budget > 0
    /\ \E uid \in Callers, id \in Ids(db.characters, db.nextCharacter), skillId \in {x.id : x \in Skills} \cup {NoId} :
           Answer("AddSkill", uid, id, skillId, AddSkill(db, uid, id, skillId))

DoRemoveSkill ==
    /\ budget > 0
    /\ \E uid \in Callers, id \in Ids(db.characters, db.nextCharacter), sub \in Ids(db.charSkills, db.nextSkillRow) :
           Answer("RemoveSkill", uid, id, sub, RemoveSkill(db, uid, id, sub))

DoGetInventory ==
    /\ budget > 0
    /\ \E uid \in Callers, id \in Ids(db.characters, db.nextCharacter) :
           Answer("GetInventory", uid, id, NoId, GetInventory(db, uid, id))

DoAddInventory ==
    /\ budget > 0
    /\ \E uid \in Callers, id \in Ids(db.characters, db.nextCharacter), body \in InventoryAddBodies :
           Answer("AddInventory", uid, id, NoId, AddInventory(db, uid, id, body))

DoRemoveInventory ==
    /\ budget > 0
    /\ \E uid \in Callers, id \in Ids(db.characters, db.nextCharacter), sub \in Ids(db.inventory, db.nextInvRow) :
           Answer("RemoveInventory", uid, id, sub, RemoveInventory(db, uid, id, sub))

DoUpdateInventory ==
    /\ budget > 0
    /\ \E uid \in Callers, id \in Ids(db.characters, db.nextCharacter), sub \in Ids(db.inventory, db.nextInvRow), body \in InventoryUpdateBodies :
           Answer("UpdateInventory", uid, id, sub, UpdateInventory(db, uid, id, sub, body))

DoReorderInventory ==
    /\ budget > 0
    /\ \E uid \in Callers, id \in Ids(db.characters, db.nextCharacter) :
         \E orderedIds \in OrderSamples(db, id) :
           AnswerWith("ReorderInventory", uid, id, NoId,
                      ReorderInventory(db, uid, id, orderedIds),
                      [orderedIds |-> orderedIds])

DoEquipWeapon ==
    /\ budget > 0
    /\ \E uid \in Callers, id \in Ids(db.characters, db.nextCharacter), sub \in Ids(db.inventory, db.nextInvRow) \cup {NoId} :
           Answer("EquipWeapon", uid, id, sub, EquipWeapon(db, uid, id, sub))

DoGetCharacterAudit ==
    /\ budget > 0
    /\ \E uid \in Callers, id \in Ids(db.characters, db.nextCharacter) :
           Answer("GetCharacterAudit", uid, id, NoId, GetCharacterAudit(db, uid, id))

DoListMaps ==
    /\ budget > 0
    /\ \E uid \in Callers, id \in Ids(db.campaigns, db.nextCampaign) :
           Answer("ListMaps", uid, id, NoId, ListMaps(db, uid, id))

DoCreateMap ==
    /\ budget > 0
    /\ \E uid \in Callers, id \in Ids(db.campaigns, db.nextCampaign), body \in MapCreateBodies :
           Answer("CreateMap", uid, id, NoId, CreateMap(db, uid, id, body))

DoGetMap ==
    /\ budget > 0
    /\ \E uid \in Callers, id \in Ids(db.maps, db.nextMap) :
           Answer("GetMap", uid, id, NoId, GetMap(db, uid, id))

DoUpdateMap ==
    /\ budget > 0
    /\ \E uid \in Callers, id \in Ids(db.maps, db.nextMap), body \in MapUpdateBodies :
           Answer("UpdateMap", uid, id, NoId, UpdateMap(db, uid, id, body))

DoGetMapAudit ==
    /\ budget > 0
    /\ \E uid \in Callers, id \in Ids(db.maps, db.nextMap) :
           Answer("GetMapAudit", uid, id, NoId, GetMapAudit(db, uid, id))

DoListRolls ==
    /\ budget > 0
    /\ \E uid \in Callers, id \in Ids(db.maps, db.nextMap) :
           Answer("ListRolls", uid, id, NoId, ListRolls(db, uid, id))

DoCreateRoll ==
    /\ budget > 0
    /\ \E uid \in Callers, id \in Ids(db.maps, db.nextMap), type \in {"REGULAR", "COMBAT", "D20"}, ra \in SampleDraws, rb \in SampleDraws :
           Answer("CreateRoll", uid, id, NoId, CreateRoll(db, uid, id, type, ra, rb))

DoListTokens ==
    /\ budget > 0
    /\ \E uid \in Callers, id \in Ids(db.maps, db.nextMap) :
           Answer("ListTokens", uid, id, NoId, ListTokens(db, uid, id))

DoCreateToken ==
    /\ budget > 0
    /\ \E uid \in Callers, id \in Ids(db.maps, db.nextMap), body \in TokenCreateBodies :
           Answer("CreateToken", uid, id, NoId, CreateToken(db, uid, id, body))

DoUpdateToken ==
    /\ budget > 0
    /\ \E uid \in Callers, id \in Ids(db.tokens, db.nextToken), body \in TokenUpdateBodies :
           Answer("UpdateToken", uid, id, NoId, UpdateToken(db, uid, id, body))

\* socket event token:move; a socket carries no session
\* io.to(`map:${mapId}`).emit("token:moved"), reached when the update resolved:
\* the room is named by the mapId of the event, not by the token's map
MovedRoom(out, mapId) == IF out.status = 200 THEN mapId ELSE NoId

DoMoveToken ==
    /\ budget > 0
    /\ \E id \in Ids(db.tokens, db.nextToken), x \in IntInputs, y \in IntInputs,
          mapId \in Ids(db.maps, db.nextMap) :
           LET out == MoveToken(db, id, x, y) IN
           AnswerWith("MoveToken", NoUser, id, NoId, out,
                      [x |-> x, y |-> y, mapId |-> mapId, room |-> MovedRoom(out, mapId)])

DoListPresets ==
    /\ budget > 0
    /\ \E uid \in Callers, id \in Ids(db.campaigns, db.nextCampaign) :
           Answer("ListPresets", uid, id, NoId, ListPresets(db, uid, id))

DoCreatePreset ==
    /\ budget > 0
    /\ \E uid \in Callers, id \in Ids(db.campaigns, db.nextCampaign), body \in PresetBodies :
           Answer("CreatePreset", uid, id, NoId, CreatePreset(db, uid, id, body))

DoGetPreset ==
    /\ budget > 0
    /\ \E uid \in Callers, id \in Ids(db.presets, db.nextPreset) :
           Answer("GetPreset", uid, id, NoId, GetPreset(db, uid, id))

DoUpdatePreset ==
    /\ budget > 0
    /\ \E uid \in Callers, id \in Ids(db.presets, db.nextPreset), body \in PresetBodies :
           Answer("UpdatePreset", uid, id, NoId, UpdatePreset(db, uid, id, body))

DoDeletePreset ==
    /\ budget > 0
    /\ \E uid \in Callers, id \in Ids(db.presets, db.nextPreset) :
           Answer("DeletePreset", uid, id, NoId, DeletePreset(db, uid, id))

DoListTileSets ==
    /\ budget > 0
    /\ \E uid \in Callers, id \in Ids(db.campaigns, db.nextCampaign) :
           Answer("ListTileSets", uid, id, NoId, ListTileSets(db, uid, id))

DoCreateTileSet ==
    /\ budget > 0
    /\ \E uid \in Callers, id \in Ids(db.campaigns, db.nextCampaign), body \in TileSetBodies :
           Answer("CreateTileSet", uid, id, NoId, CreateTileSet(db, uid, id, body))

DoUploadTileSet ==
    /\ budget > 0
    /\ \E uid \in Callers, id \in Ids(db.campaigns, db.nextCampaign), req \in UploadRequests :
           Answer("UploadTileSet", uid, id, NoId, UploadTileSet(db, uid, id, req))

DoGetTileSet ==
    /\ budget > 0
    /\ \E uid \in Callers, id \in Ids(db.tileSets, db.nextTileSet) :
           Answer("GetTileSet", uid, id, NoId, GetTileSet(db, uid, id))

Next ==
    \/ DoGetMe
    \/ DoListClasses
    \/ DoListItems
    \/ DoListSkills
    \/ DoListCampaigns
    \/ DoCreateCampaign
    \/ DoGetCampaign
    \/ DoGetCampaignRole
    \/ DoGetCampaignMembers
    \/ DoAddMember
    \/ DoListCharacters
    \/ DoCreateCharacter
    \/ DoGetCharacter
    \/ DoUpdateCharacter
    \/ DoUpdateHp
    \/ DoAddSkill
    \/ DoRemoveSkill
    \/ DoGetInventory
    \/ DoAddInventory
    \/ DoRemoveInventory
    \/ DoUpdateInventory
    \/ DoReorderInventory
    \/ DoEquipWeapon
    \/ DoGetCharacterAudit
    \/ DoListMaps
    \/ DoCreateMap
    \/ DoGetMap
    \/ DoUpdateMap
    \/ DoGetMapAudit
    \/ DoListRolls
    \/ DoCreateRoll
    \/ DoListTokens
    \/ DoCreateToken
    \/ DoUpdateToken
    \/ DoMoveToken
    \/ DoListPresets
    \/ DoCreatePreset
    \/ DoGetPreset
    \/ DoUpdatePreset
    \/ DoDeletePreset
    \/ DoListTileSets
    \/ DoCreateTileSet
    \/ DoUploadTileSet
    \/ DoGetTileSet

Spec == Init /\ [][Next]_vars

-----------------------------------------------------------------------------
(* Properties of the authorization gate.  An answered request is a step that *)
(* sets resp; db is the store before the step and db' the store after it.    *)

CampaignOps ==
    {"GetCampaign", "GetCampaignRole", "GetCampaignMembers", "AddMember",
     "ListCharacters", "CreateCharacter", "ListMaps", "CreateMap",
     "ListPresets", "CreatePreset", "ListTileSets", "CreateTileSet", "UploadTileSet"}
CharacterOps ==
    {"GetCharacter", "UpdateCharacter", "UpdateHp", "AddSkill", "RemoveSkill",
     "GetInventory", "AddInventory", "RemoveInventory", "UpdateInventory",
     "ReorderInventory", "EquipWeapon", "GetCharacterAudit"}
MapOps ==
    {"GetMap", "UpdateMap", "GetMapAudit", "ListRolls", "CreateRoll",
     "ListTokens", "CreateToken"}
TokenOps == {"UpdateToken"}
PresetOps == {"GetPreset", "UpdatePreset", "DeletePreset"}
TileSetOps == {"GetTileSet"}
CatalogOps == {"GetMe", "ListClasses", "ListItems", "ListSkills", "ListCampaigns",
               "CreateCampaign"}
ScopedOps == CampaignOps \cup CharacterOps \cup MapOps \cup TokenOps
                 \cup PresetOps \cup TileSetOps
ProtectedOps == ScopedOps \cup CatalogOps

\* the campaign of the entity a request names in its path, NoId when the id
\* names no stored entity
CampaignOfRow(table, id) == IF Has(table, id) THEN Get(table, id).campaignId ELSE NoId

ScopeCampaign(d, op, id) ==
    IF op \in CampaignOps THEN (IF Has(d.campaigns, id) THEN id ELSE NoId)
    ELSE IF op \in CharacterOps THEN CampaignOfRow(d.characters, id)
    ELSE IF op \in MapOps THEN CampaignOfRow(d.maps, id)
    ELSE IF op \in TokenOps
    THEN (IF Has(d.tokens, id) THEN CampaignOfRow(d.maps, Get(d.tokens, id).mapId) ELSE NoId)
    ELSE IF op \in PresetOps THEN CampaignOfRow(d.presets, id)
    ELSE IF op \in TileSetOps THEN CampaignOfRow(d.tileSets, id)
    ELSE NoId

RoleIn(d, userId, campaignId) ==
    IF FindMembership(d, userId, campaignId) = {} THEN "NONE"
    ELSE (CHOOSE m \in FindMembership(d, userId, campaignId) : TRUE).role

\* C1: a signed-in caller with no membership row in the campaign of the entity
\* the request names, that entity being stored, is answered 403 by every
\* scoped read and write, and the store is left as it was.
NonMemberForbidden ==
    [][(/\ resp'.op \in ScopedOps
        /\ resp'.caller # NoUser
        /\ ScopeCampaign(db, resp'.op, resp'.id) # NoId
        /\ RoleIn(db, resp'.caller, ScopeCampaign(db, resp'.op, resp'.id)) = "NONE")
       => (resp'.status = 403 /\ db' = db)]_vars

\* a non-member was refused a write on a stored character of a campaign
NonMemberRefused ==
    /\ resp.op = "UpdateHp"
    /\ resp.caller # NoUser
    /\ Has(db.characters, resp.id)
    /\ RoleIn(db, resp.caller, Get(db.characters, resp.id).campaignId) = "NONE"
    /\ resp.status = 403

\* C2: every protected request that carries no session identity is answered
\* 401 and leaves the store as it was, whatever id it names.
NoSessionUnauthorized ==
    [][(resp'.op \in ProtectedOps /\ resp'.caller = NoUser)
       => (resp'.status = 401 /\ db' = db)]_vars

DMOnlyOps ==
    {"AddMember", "CreateCharacter", "UpdateCharacter", "AddInventory",
     "RemoveInventory", "AddSkill", "RemoveSkill", "CreateMap", "UpdateMap",
     "CreateToken", "UpdateToken", "CreateTileSet", "UploadTileSet",
     "CreatePreset", "UpdatePreset", "DeletePreset", "GetMapAudit",
     "GetCharacterAudit"}

\* C3: a DM-only request from a member whose role is PLAYER is answered 403 and
\* leaves the store as it was; a DM-only request is answered 200 only when the
\* caller's membership row in the entity's campaign has role DM.
PlayerForbiddenOnDMOps ==
    [][resp'.op \in DMOnlyOps =>
         LET role == RoleIn(db, resp'.caller, ScopeCampaign(db, resp'.op, resp'.id)) IN
         /\ role = "PLAYER" => (resp'.status = 403 /\ db' = db)
         /\ resp'.status = 200 => role = "DM"]_vars

\* a PLAYER member was refused the removal of a row of their own character
PlayerRefused ==
    /\ resp.op = "RemoveInventory"
    /\ Has(db.characters, resp.id)
    /\ Get(db.characters, resp.id).ownerId = resp.caller
    /\ RoleIn(db, resp.caller, Get(db.characters, resp.id).campaignId) = "PLAYER"
    /\ Has(db.inventory, resp.sub)
    /\ resp.status = 403

OwnerOrDMOps == {"UpdateHp", "ReorderInventory", "UpdateInventory", "EquipWeapon"}

\* the rule of the claim, read from the store: a membership row in the
\* character's campaign, and role DM or a non-null ownerId equal to the caller
MayEdit(d, userId, characterId) ==
    LET character == Get(d.characters, characterId)
        role == RoleIn(d, userId, character.campaignId)
    IN role # "NONE"
       /\ (role = "DM" \/ (character.ownerId # NullStr /\ character.ownerId = userId))

\* C4: HP update, inventory reorder, inventory field update and equip-weapon on
\* a stored character answer a signed-in caller "Forbidden" (403) exactly when
\* the caller has no membership in the character's campaign, or is neither DM
\* nor the character's owner; a refused request leaves the store as it was.
OwnerOrDMRule ==
    [][(/\ resp'.op \in OwnerOrDMOps
        /\ resp'.caller # NoUser
        /\ Has(db.characters, resp'.id))
       => /\ (resp'.status = 403 /\ resp'.error = "Forbidden")
                 <=> ~MayEdit(db, resp'.caller, resp'.id)
          /\ ~MayEdit(db, resp'.caller, resp'.id) => db' = db]_vars

\* the owner of a character, holding no membership in its campaign, was refused
OwnerWithoutMembershipRefused ==
    /\ resp.op \in OwnerOrDMOps
    /\ Has(db.characters, resp.id)
    /\ Get(db.characters, resp.id).ownerId = resp.caller
    /\ RoleIn(db, resp.caller, Get(db.characters, resp.id).campaignId) = "NONE"
    /\ resp.status = 403
    /\ resp.error = "Forbidden"

\* the weapon slot of a stored character
EquippedOf(d, characterId) == Get(d.characters, characterId).equippedWeaponItemId

\* C10: an equip-weapon request naming a stored inventory row whose item is not
\* of category WEAPON is never answered 200, whatever the caller's role, and
\* the character's equippedWeaponItemId stays as it was; a DM or the owning
\* player naming such a row of the character is answered 400.
NonWeaponNeverEquipped ==
    [][(/\ resp'.op = "EquipWeapon"
        /\ Has(db.characters, resp'.id)
        /\ Has(db.inventory, resp'.sub)
        /\ Get(Items, Get(db.inventory, resp'.sub).itemId).category # "WEAPON")
       => /\ resp'.status # 200
          /\ EquippedOf(db', resp'.id) = EquippedOf(db, resp'.id)
          /\ (/\ resp'.caller # NoUser
              /\ MayEdit(db, resp'.caller, resp'.id)
              /\ Get(db.inventory, resp'.sub).characterId = resp'.id)
             => (resp'.status = 400 /\ resp'.error = "Only weapons can be equipped")]_vars

\* a DM was refused the equipping of a staff the character holds
NonWeaponRefusedForDM ==
    /\ resp.op = "EquipWeapon"
    /\ Has(db.characters, resp.id)
    /\ RoleIn(db, resp.caller, Get(db.characters, resp.id).campaignId) = "DM"
    /\ Has(db.inventory, resp.sub)
    /\ Get(db.inventory, resp.sub).characterId = resp.id
    /\ Get(Items, Get(db.inventory, resp.sub).itemId).category # "WEAPON"
    /\ resp.status = 400
    /\ EquippedOf(db, resp.id) # resp.sub

-----------------------------------------------------------------------------
(* Campaign creation in steps.  POST /campaigns awaits requireAuth, parses   *)
(* the body and then awaits one prisma.campaign.create; other requests run   *)
(* between the two awaits and while the create is in flight.                 *)

CampRequests == 3     \* requests sent in one behaviour of SpecCamp
MaxInFlight == 2      \* requests in flight at the same time

InitCamp ==
    /\ db = EmptyDb
    /\ resp = Idle
    /\ budget = CampRequests
    /\ pending = {}

Reply(op, uid, id, sub, status, error) ==
    resp' = [op |-> op, caller |-> uid, id |-> id, sub |-> sub,
             status |-> status, error |-> error]

\* requireAuth and createCampaignSchema.parse, up to the await of the create
BeginCreateCampaign ==
    /\ budget > 0
    /\ Cardinality(pending) < MaxInFlight
    /\ budget' = budget - 1
    /\ \E uid \in Callers, name \in CampaignNames :
          LET a == requireAuth(uid) IN
          IF a.status # 200
          THEN Reply("CreateCampaign", uid, NoId, NoId, a.status, a.error)
               /\ UNCHANGED <<db, pending>>
          ELSE IF Len(name) < MinNameLen
          THEN Reply("CreateCampaign", uid, NoId, NoId, 400, "Invalid request")
               /\ UNCHANGED <<db, pending>>
          ELSE /\ pending' = pending \cup {[op |-> "CreateCampaign", rid |-> budget,
                                             caller |-> uid, name |-> name]}
               /\ UNCHANGED <<db, resp>>

\* the create resolves: campaign row and DM row are stored, the reply is sent
CommitCreateCampaign ==
    \E p \in pending :
        /\ p.op = "CreateCampaign"
        /\ WithinBounds(CampaignCreateWrite(db, p.name, p.caller))
        /\ db' = CampaignCreateWrite(db, p.name, p.caller)
        /\ Reply("CreateCampaign", p.caller, NoId, NoId, 200, "")
        /\ pending' = pending \ {p}
        /\ UNCHANGED budget

\* the create rejects (the store fails the statement): nothing is stored and
\* the error handler sends the error
AbortCreateCampaign ==
    \E p \in pending :
        /\ p.op = "CreateCampaign"
        /\ Reply("CreateCampaign", p.caller, NoId, NoId, 500, "Internal Server Error")
        /\ pending' = pending \ {p}
        /\ UNCHANGED <<db, budget>>

NextCamp ==
    \/ BeginCreateCampaign
    \/ CommitCreateCampaign
    \/ AbortCreateCampaign
    \/ DoListCampaigns
    \/ DoGetCampaign
    \/ DoGetCampaignRole
    \/ DoGetCampaignMembers
    \/ DoAddMember

SpecCamp == InitCamp /\ [][NextCamp]_vars

\* a step in which a request in steps is answered: at once by its checks, or
\* when its write resolves
Replied ==
    \/ (budget' # budget /\ pending' = pending)
    \/ (budget' = budget /\ pending' # pending)

\* C5: a campaign has the DM membership row of its creator in the first state
\* in which it is stored, every stored campaign has a membership row of its
\* creator, and a create-campaign answered with an error stored nothing.
CreatorIsDMFromTheStart ==
    [][/\ \A c \in db'.campaigns \ db.campaigns :
              [userId |-> c.createdById, campaignId |-> c.id, role |-> "DM"] \in db'.members
       /\ \A c \in db'.campaigns : RoleIn(db', c.createdById, c.id) # "NONE"
       /\ (Replied /\ resp'.op = "CreateCampaign" /\ resp'.status # 200) => db' = db]_vars

\* a campaign was just stored while another create-campaign is in flight
CampaignStoredDuringCreate ==
    /\ resp.op = "CreateCampaign"
    /\ resp.status = 200
    /\ \E p \in pending : p.op = "CreateCampaign"
    /\ \E c \in db.campaigns : RoleIn(db, c.createdById, c.id) = "DM"

-----------------------------------------------------------------------------
(* Inventory add in steps.  POST /characters/:id/inventory awaits the count  *)
(* of the character's rows, then the largest sortOrder, then the create;     *)
(* other inventory requests run between these awaits.                        *)

InvRequests == 3      \* requests sent in one behaviour of SpecInv
\* rows the character holds at the start: one below the cap
InvSeedRows == InventoryCap - 1

RECURSIVE SeedRows(_, _)
SeedRows(d, n) ==
    IF n = 0 THEN d
    ELSE AddInventory(SeedRows(d, n - 1), "u1", 1, [itemId |-> ((n - 1) % 2) + 1]).db

InitInv ==
    /\ db = SeedRows(SeedCharacters, InvSeedRows)
    /\ resp = Idle
    /\ budget = InvRequests
    /\ pending = {}

InvCallers == {"u1", "u2"}            \* the DM and the owning player
InvCharacter == 1

\* character lookup, requireDM, inventoryAddSchema.parse, item lookup and the
\* count: a request that passes them waits for the aggregate
BeginAddInventory ==
    /\ budget > 0
    /\ Cardinality(pending) < MaxInFlight
    /\ budget' = budget - 1
    /\ \E uid \in InvCallers, body \in {[itemId |-> 1], [itemId |-> 2, uses |-> 1]} :
          LET gate == AddInventoryGate(db, uid, InvCharacter, body) IN
          IF gate.status # 200
          THEN Reply("AddInventory", uid, InvCharacter, NoId, gate.status, gate.error)
               /\ UNCHANGED <<db, pending>>
          ELSE /\ pending' = pending \cup
                     {[op |-> "AddInventory", rid |-> budget, caller |-> uid,
                       id |-> InvCharacter, body |-> body, pc |-> "aggregate",
                       sortOrder |-> 0]}
               /\ UNCHANGED <<db, resp>>

\* prisma.characterItem.aggregate resolves: sortOrder = (max ?? -1) + 1
ReadMaxOrder ==
    \E p \in pending :
        /\ p.op = "AddInventory" /\ p.pc = "aggregate"
        /\ pending' = (pending \ {p}) \cup
               {[p EXCEPT !.pc = "create", !.sortOrder = NextSortOrder(db, p.id)]}
        /\ UNCHANGED <<db, resp, budget>>

\* prisma.characterItem.create, the audit record and the reply
CommitAddInventory ==
    \E p \in pending :
        /\ p.op = "AddInventory" /\ p.pc = "create"
        /\ LET d1 == InvCreateRow(db, p.id, p.body.itemId, p.sortOrder,
                                  AddUses(p.body, Get(Items, p.body.itemId)),
                                  Get(db.characters, p.id).campaignId, p.caller)
           IN WithinBounds(d1) /\ db' = d1
        /\ Reply("AddInventory", p.caller, p.id, NoId, 200, "")
        /\ pending' = pending \ {p}
        /\ UNCHANGED budget

InvRemoveInventory ==
    /\ budget > 0
    /\ \E uid \in InvCallers, sub \in Ids(db.inventory, db.nextInvRow) :
           Answer("RemoveInventory", uid, InvCharacter, sub,
                  RemoveInventory(db, uid, InvCharacter, sub))

InvUpdateInventory ==
    /\ budget > 0
    /\ \E uid \in InvCallers, sub \in Ids(db.inventory, db.nextInvRow) :
           Answer("UpdateInventory", uid, InvCharacter, sub,
                  UpdateInventory(db, uid, InvCharacter, sub, [blessed |-> TRUE]))

InvReorderInventory ==
    /\ budget > 0
    /\ \E uid \in InvCallers, orderedIds \in OrderSamples(db, InvCharacter) :
           AnswerWith("ReorderInventory", uid, InvCharacter, NoId,
                      ReorderInventory(db, uid, InvCharacter, orderedIds),
                      [orderedIds |-> orderedIds])

NextInv ==
    \/ BeginAddInventory
    \/ ReadMaxOrder
    \/ CommitAddInventory
    \/ InvRemoveInventory
    \/ InvUpdateInventory
    \/ InvReorderInventory

SpecInv == InitInv /\ [][NextInv]_vars

\* C6: no character ever holds more than InventoryCap inventory rows.
InventoryWithinCap ==
    \A c \in db.characters : InvCount(db, c.id) <= InventoryCap

-----------------------------------------------------------------------------
(* Inventory reorder over short inventories.  The last request of a          *)
(* behaviour carries any list of ids; the requests before it bring the       *)
(* inventory into the orders a client can have stored.                       *)

OrderRequests == 2    \* requests sent in one behaviour of SpecOrder
OrderSeedRows == 3    \* the character starts with 0..OrderSeedRows rows

InitOrder ==
    /\ db \in {SeedRows(SeedCharacters, n) : n \in 0..OrderSeedRows}
    /\ resp = Idle
    /\ budget = OrderRequests
    /\ pending = {}

OrdReorderInventory ==
    /\ budget = 1
    /\ \E uid \in Callers, orderedIds \in OrderInputs(db, InvCharacter) :
           AnswerWith("ReorderInventory", uid, InvCharacter, NoId,
                      ReorderInventory(db, uid, InvCharacter, orderedIds),
                      [orderedIds |-> orderedIds])

NextOrder ==
    \/ InvReorderInventory
    \/ InvRemoveInventory
    \/ OrdReorderInventory

SpecOrder == InitOrder /\ [][NextOrder]_vars

\* orderedIds lists every row id of the character exactly once
IsPermutationOfRows(d, characterId, orderedIds) ==
    /\ Len(orderedIds) = InvCount(d, characterId)
    /\ SeqToSet(orderedIds) = {r.id : r \in InventoryOf(d, characterId)}

SortOrders(d, characterId) ==
    {<<r.id, r.sortOrder>> : r \in InventoryOf(d, characterId)}

\* C7: a reorder whose orderedIds is not exactly the character's current row
\* ids (wrong length, a foreign id, or a repeated id) is not answered 200 and
\* leaves every sortOrder as it was.
BadOrderRejected ==
    [][(/\ resp'.op = "ReorderInventory"
        /\ Has(db.characters, resp'.id)
        /\ ~IsPermutationOfRows(db, resp'.id, resp'.orderedIds))
       => (resp'.status # 200 /\ SortOrders(db', resp'.id) = SortOrders(db, resp'.id))]_vars

\* C8: a reorder by a DM or the owner whose orderedIds is a permutation of the
\* character's row ids is answered 200 and leaves row orderedIds[i] with
\* sortOrder i-1; the same request sent again is answered 200 and changes no
\* sortOrder.
PermutationApplied ==
    [][(/\ resp'.op = "ReorderInventory"
        /\ Has(db.characters, resp'.id)
        /\ resp'.caller # NoUser
        /\ MayEdit(db, resp'.caller, resp'.id)
        /\ IsPermutationOfRows(db, resp'.id, resp'.orderedIds))
       => /\ resp'.status = 200
          /\ SortOrders(db', resp'.id) =
                 {<<resp'.orderedIds[i], i - 1>> : i \in 1..Len(resp'.orderedIds)}
          /\ LET again == ReorderInventory(db', resp'.caller, resp'.id, resp'.orderedIds)
             IN again.status = 200
                /\ SortOrders(again.db, resp'.id) = SortOrders(db', resp'.id)]_vars

\* a permutation that moves rows was applied, and applied a second time
PermutationAppliedTwice ==
    /\ resp.op = "ReorderInventory"
    /\ resp.status = 200
    /\ budget = 0
    /\ Len(resp.orderedIds) = OrderSeedRows
    /\ IsPermutationOfRows(db, resp.id, resp.orderedIds)
    /\ db.audit[Len(db.audit)].action = "INVENTORY_REORDER"
    /\ db.audit[Len(db.audit) - 1].action = "INVENTORY_REORDER"
    /\ resp.orderedIds # <<1, 2, 3>>
    /\ SortOrders(db, resp.id) =
           {<<resp.orderedIds[i], i - 1>> : i \in 1..Len(resp.orderedIds)}

-----------------------------------------------------------------------------
(* Token create and update in steps.  Both handlers await the lookup of a    *)
(* token bound to the character and then await the write; other token        *)
(* requests run between the lookup and the write.                            *)

TokRequests == 3      \* requests sent in one behaviour of SpecTok

\* campaign 1 with maps 1 and 2; token 1 on map 1 is bound to character 1;
\* character 2 of the same campaign has no token
InitTok ==
    /\ db = CreateMap(SeedWorld, "u1", 1, [name |-> "Keep"]).db
    /\ resp = Idle
    /\ budget = TokRequests
    /\ pending = {}

TokCallers == {"u1", "u2"}            \* the DM and a PLAYER of campaign 1

CharacterSent(body) ==
    IF "characterId" \in DOMAIN body THEN [characterId |-> body.characterId] ELSE <<>>

\* map lookup, requireDM, tokenSchema.parse, character lookup and the lookup
\* of a token bound to the character
BeginCreateToken ==
    /\ budget > 0
    /\ Cardinality(pending) < MaxInFlight
    /\ budget' = budget - 1
    /\ \E uid \in TokCallers, id \in Ids(db.maps, db.nextMap), c \in Ids(db.characters, db.nextCharacter) :
          LET body == [x |-> 0, y |-> 0, characterId |-> c]
              gate == CreateTokenGate(db, uid, id, body) IN
          IF gate.status # 200
          THEN resp' = [op |-> "CreateToken", caller |-> uid, id |-> id, sub |-> NoId,
                        status |-> gate.status, error |-> gate.error, characterId |-> c]
               /\ UNCHANGED <<db, pending>>
          ELSE /\ pending' = pending \cup
                     {[op |-> "CreateToken", rid |-> budget, caller |-> uid,
                       id |-> id, body |-> body]}
               /\ UNCHANGED <<db, resp>>

\* prisma.token.create resolves or rejects, and the reply is sent
CommitCreateToken ==
    \E p \in pending :
        /\ p.op = "CreateToken"
        /\ LET out == CreateTokenWrite(db, p.id, p.body) IN
           /\ WithinBounds(out.db)
           /\ db' = out.db
           /\ resp' = [op |-> "CreateToken", caller |-> p.caller, id |-> p.id,
                       sub |-> NoId, status |-> out.status, error |-> out.error,
                       characterId |-> p.body.characterId]
        /\ pending' = pending \ {p}
        /\ UNCHANGED budget

\* token lookup, requireDM, updateSchema.parse and, when the body names another
\* character, the character lookup and the lookup of a token bound to it
BeginUpdateToken ==
    /\ budget > 0
    /\ Cardinality(pending) < MaxInFlight
    /\ budget' = budget - 1
    /\ \E uid \in TokCallers, id \in Ids(db.tokens, db.nextToken),
          body \in {[x |-> MaxCoord]} \cup {[characterId |-> c] : c \in Ids(db.characters, db.nextCharacter)} :
          LET gate == UpdateTokenGate(db, uid, id, body) IN
          IF gate.status # 200
          THEN resp' = [op |-> "UpdateToken", caller |-> uid, id |-> id, sub |-> NoId,
                        status |-> gate.status, error |-> gate.error] @@ CharacterSent(body)
               /\ UNCHANGED <<db, pending>>
          ELSE /\ pending' = pending \cup
                     {[op |-> "UpdateToken", rid |-> budget, caller |-> uid, id |-> id,
                       body |-> body, existing |-> Get(db.tokens, id)]}
               /\ UNCHANGED <<db, resp>>

\* prisma.token.update resolves or rejects, and the reply is sent
CommitUpdateToken ==
    \E p \in pending :
        /\ p.op = "UpdateToken"
        /\ LET out == UpdateTokenWrite(db, p.existing, p.body) IN
           /\ db' = out.db
           /\ resp' = [op |-> "UpdateToken", caller |-> p.caller, id |-> p.id,
                       sub |-> NoId, status |-> out.status, error |-> out.error]
                          @@ CharacterSent(p.body)
        /\ pending' = pending \ {p}
        /\ UNCHANGED budget

NextTok ==
    \/ BeginCreateToken
    \/ CommitCreateToken
    \/ BeginUpdateToken
    \/ CommitUpdateToken
    \/ DoMoveToken

SpecTok == InitTok /\ [][NextTok]_vars

\* the tokens of d other than token id that are bound to the character
OtherTokensOf(d, characterId, id) ==
    {t \in d.tokens : t.characterId = characterId /\ t.id # id}

TokenWriteOps == {"CreateToken", "UpdateToken"}

\* the token an answered request is about: none for a create
TokenNamed(r) == IF r.op = "UpdateToken" THEN r.id ELSE NoId

-----------------------------------------------------------------------------
(* Characters created and updated in sequence.  The requests carry every    *)
(* combination of kind and ownerId the schemas admit; the reply records the *)
(* body it answers.                                                         *)

CharRequests == 2

CharCallers == {"u1", "u2"}          \* the DM and a player of campaign 1

KindOwnerCreateBodies ==
    {BaseCharacter @@ k @@ o : k \in Opt("kind", Kinds), o \in Opt("ownerId", {"u2", "u3"})}

KindOwnerUpdateBodies ==
    {k @@ o : k \in Opt("kind", Kinds), o \in Opt("ownerId", {"u1", "u3", NullStr})}

InitChar ==
    /\ db = SeedWorld
    /\ resp = Idle
    /\ budget = CharRequests
    /\ pending = {}

ChrCreateCharacter ==
    /\ budget > 0
    /\ \E uid \in CharCallers, id \in Ids(db.campaigns, db.nextCampaign) :
         \E body \in KindOwnerCreateBodies :
           AnswerWith("CreateCharacter", uid, id, NoId,
                      CreateCharacter(db, uid, id, body), [body |-> body])

ChrUpdateCharacter ==
    /\ budget > 0
    /\ \E uid \in CharCallers, id \in Ids(db.characters, db.nextCharacter) :
         \E body \in KindOwnerUpdateBodies :
           AnswerWith("UpdateCharacter", uid, id, NoId,
                      UpdateCharacter(db, uid, id, body), [body |-> body])

NextChar ==
    \/ ChrCreateCharacter
    \/ ChrUpdateCharacter

SpecChar == InitChar /\ [][NextChar]_vars

\* C12: every stored character whose kind is NPC or ENEMY has no owner.
NpcHasNoOwner ==
    \A c \in db.characters : c.kind # "PLAYER" => c.ownerId = NullStr

\* a create that named an owner for an NPC or ENEMY was answered 200 and the
\* character it stored has no owner
OwnerDroppedOnNpcCreate ==
    /\ resp.op = "CreateCharacter"
    /\ resp.status = 200
    /\ "kind" \in DOMAIN resp.body /\ resp.body.kind # "PLAYER"
    /\ "ownerId" \in DOMAIN resp.body /\ resp.body.ownerId \in Users
    /\ Has(db.characters, db.nextCharacter - 1)
    /\ Get(db.characters, db.nextCharacter - 1).kind = resp.body.kind
    /\ Get(db.characters, db.nextCharacter - 1).ownerId = NullStr

-----------------------------------------------------------------------------
(* Equipping after the owner, the kind or the roles have changed.  The      *)
(* store starts with character 1 (owner u2, rows 1..3, row 3 a laguz weapon *)
(* restricted to Cat) in each class a DM can have given it.                 *)

EquipRequests == 2

EquipClassNames == {"Cat", "Fighter", "cat", NullStr}

InitEquip ==
    /\ db \in {UpdateCharacter(SeedWorld, "u1", 1, [className |-> c]).db : c \in EquipClassNames}
    /\ resp = Idle
    /\ budget = EquipRequests
    /\ pending = {}

\* PUT /characters/:id with the bodies that change kind and owner
EqpUpdateCharacter ==
    /\ budget > 0
    /\ \E uid \in CharCallers, id \in Ids(db.characters, db.nextCharacter) :
         \E body \in KindOwnerUpdateBodies :
           Answer("UpdateCharacter", uid, id, NoId, UpdateCharacter(db, uid, id, body))

NextEquip ==
    \/ DoEquipWeapon
    \/ EqpUpdateCharacter
    \/ DoAddMember

SpecEquip == InitEquip /\ [][NextEquip]_vars

\* the class a stored inventory row's item is restricted to: the item is a
\* laguz weapon with a classRestriction, else NullStr
RestrictionOfRow(d, inventoryId) ==
    LET item == Get(Items, Get(d.inventory, inventoryId).itemId) IN
    IF item.category = "WEAPON" /\ item.type \in {"laguz", "Laguz"}
    THEN item.classRestriction ELSE NullStr

\* C11: an equip-weapon request naming a row of the character whose item is a
\* laguz weapon restricted to class R: from the owning player (role PLAYER)
\* of a character whose className is not R it is answered 403 and the weapon
\* slot stays as it was; from a DM it is answered 200 and the slot holds the
\* row, whatever the className; from the owning player of a character whose
\* className is R it is answered 200 and the slot holds the row.
LaguzRestrictionRule ==
    [][(/\ resp'.op = "EquipWeapon"
        /\ Has(db.characters, resp'.id)
        /\ Has(db.inventory, resp'.sub)
        /\ Get(db.inventory, resp'.sub).characterId = resp'.id
        /\ RestrictionOfRow(db, resp'.sub) # NullStr)
       => LET character == Get(db.characters, resp'.id)
              role == RoleIn(db, resp'.caller, character.campaignId)
              R == RestrictionOfRow(db, resp'.sub)
              equipped == /\ resp'.status = 200
                          /\ EquippedOf(db', resp'.id) = resp'.sub
          IN /\ role = "DM" => equipped
             /\ (role = "PLAYER" /\ character.ownerId = resp'.caller)
                => IF character.className = R
                   THEN equipped
                   ELSE /\ resp'.status = 403
                        /\ EquippedOf(db', resp'.id) = EquippedOf(db, resp'.id)
                        /\ db' = db]_vars

\* the owning player of a character of another class was refused the laguz
\* weapon the character holds
LaguzRefusedForOwner ==
    /\ resp.op = "EquipWeapon"
    /\ Has(db.characters, resp.id)
    /\ Has(db.inventory, resp.sub)
    /\ Get(db.inventory, resp.sub).characterId = resp.id
    /\ RestrictionOfRow(db, resp.sub) # NullStr
    /\ Get(db.characters, resp.id).ownerId = resp.caller
    /\ RoleIn(db, resp.caller, Get(db.characters, resp.id).campaignId) = "PLAYER"
    /\ Get(db.characters, resp.id).className = "Fighter"
    /\ resp.status = 403
    /\ resp.error = "Laguz weapons are restricted"
    /\ EquippedOf(db, resp.id) # resp.sub

-----------------------------------------------------------------------------
(* Maps created and updated in sequence by members of campaign 1.  The store *)
(* starts with map 1 (5 x 5); the requests carry tile counts and grids that *)
(* agree and that disagree, and the reply records the body it answers.      *)
(* Every stored map has a grid (create always stores one), so the update's  *)
(* test for a stored null grid never takes its other branch.                *)

MapRequests == 2

MapCallers == {"u1", "u2"}         \* the DM and a player of campaign 1

Grid6 == buildEmptyGrid(MinTileCount + 1, MinTileCount + 1)

MapGridInputs ==
    {Grid5, Grid6,
     buildEmptyGrid(MinTileCount, MinTileCount + 1),
     buildEmptyGrid(MinTileCount + 1, MinTileCount),
     [Grid6 EXCEPT ![2] = <<NullStr>>]}

MapSizeBodies ==
    {x @@ y @@ g :
        x \in Opt("tileCountX", {MinTileCount + 1}),
        y \in Opt("tileCountY", {MinTileCount + 1}),
        g \in Opt("tileGrid", MapGridInputs)}

InitMap ==
    /\ db = SeedWorld
    /\ resp = Idle
    /\ budget = MapRequests
    /\ pending = {}

MapCreateMap ==
    /\ budget > 0
    /\ \E uid \in MapCallers, id \in Ids(db.campaigns, db.nextCampaign) :
         \E size \in MapSizeBodies :
           LET body == [name |-> "Field", imageUrl |-> "http://img"] @@ size IN
           AnswerWith("CreateMap", uid, id, NoId, CreateMap(db, uid, id, body),
                      [body |-> size])

MapUpdateMap ==
    /\ budget > 0
    /\ \E uid \in MapCallers, id \in Ids(db.maps, db.nextMap) :
         \E body \in MapSizeBodies :
           AnswerWith("UpdateMap", uid, id, NoId, UpdateMap(db, uid, id, body),
                      [body |-> body])

NextMap ==
    \/ MapCreateMap
    \/ MapUpdateMap

SpecMap == InitMap /\ [][NextMap]_vars

\* the tile count a map request takes effect with: the one sent, else the
\* stored one (update) or 10 (create)
EffectiveCount(d, op, id, body, f) ==
    IF f \in DOMAIN body THEN body[f]
    ELSE IF op = "UpdateMap" THEN Get(d.maps, id)[f]
    ELSE DefaultTileCount

\* a supplied grid, or on update the stored one, disagrees with the effective
\* tile counts in its number of rows or in the length of some row
EffectiveGridMismatch(d, op, id, body) ==
    /\ "tileGrid" \in DOMAIN body \/ op = "UpdateMap"
    /\ LET grid == IF "tileGrid" \in DOMAIN body THEN body.tileGrid
                   ELSE Get(d.maps, id).tileGrid
           rows == EffectiveCount(d, op, id, body, "tileCountY")
           cols == EffectiveCount(d, op, id, body, "tileCountX")
       IN \/ Len(grid) # rows
          \/ \E i \in 1..Len(grid) : Len(grid[i]) # cols

\* C13: a map create, or an update of a stored map, sent by a DM of the
\* campaign, whose effective grid has a number of rows other than the
\* effective tileCountY or a row whose length is not the effective tileCountX,
\* is answered 400 and leaves maps and audit log (the whole store) as they
\* were.
MismatchedGridRejected ==
    [][(/\ resp'.op \in {"CreateMap", "UpdateMap"}
        /\ ScopeCampaign(db, resp'.op, resp'.id) # NoId
        /\ RoleIn(db, resp'.caller, ScopeCampaign(db, resp'.op, resp'.id)) = "DM"
        /\ EffectiveGridMismatch(db, resp'.op, resp'.id, resp'.body))
       => /\ resp'.status = 400
          /\ db'.maps = db.maps
          /\ db'.audit = db.audit
          /\ db' = db]_vars

\* an update that widened a 5 x 5 map to 6 columns without sending a grid was
\* refused
WidenedWithoutGridRefused ==
    /\ resp.op = "UpdateMap"
    /\ resp.caller = "u1"
    /\ resp.id = 1
    /\ resp.body = [tileCountX |-> MinTileCount + 1]
    /\ Get(db.maps, 1).tileCountX = MinTileCount
    /\ Get(db.maps, 1).tileGrid = Grid5
    /\ resp.status = 400

\* C14: every stored map's grid has tileCountY rows of tileCountX cells each.
StoredGridsMatchCounts ==
    \A m \in db.maps :
        /\ Len(m.tileGrid) = m.tileCountY
        /\ \A i \in 1..Len(m.tileGrid) : Len(m.tileGrid[i]) = m.tileCountX

\* a create that sent neither counts nor grid stored a 10 x 10 grid of nulls
DefaultGridStored ==
    /\ resp.op = "CreateMap"
    /\ resp.status = 200
    /\ resp.body = <<>>
    /\ Has(db.maps, db.nextMap - 1)
    /\ Get(db.maps, db.nextMap - 1).tileCountX = DefaultTileCount
    /\ Get(db.maps, db.nextMap - 1).tileCountY = DefaultTileCount
    /\ Get(db.maps, db.nextMap - 1).tileGrid
         = [i \in 1..DefaultTileCount |-> [j \in 1..DefaultTileCount |-> NullStr]]

-----------------------------------------------------------------------------
(* Rolls over the whole range of the die.  Math.random() yields any value   *)
(* in [0, 1), so floor(random * 100) is any of 0..99; the last request of a *)
(* run draws from the whole range and its reply records the two values of   *)
(* rollDie, the requests before it draw the extremes.                       *)

RollRequests == 2

RollCallers == {"u2"}                \* a player of campaign 1

Draws == 0..(Sides - 1)

InitRoll ==
    /\ db = SeedWorld
    /\ resp = Idle
    /\ budget = RollRequests
    /\ pending = {}

RollCreateRoll ==
    /\ budget = 1
    /\ \E uid \in RollCallers, id \in {r.id : r \in db.maps} :
         \/ \E ra \in Draws :
              AnswerWith("CreateRoll", uid, id, NoId,
                         CreateRoll(db, uid, id, "REGULAR", ra, 0),
                         [type |-> "REGULAR", rollA |-> rollDie(ra), rollB |-> NoId])
         \/ \E ra \in Draws, rb \in Draws :
              AnswerWith("CreateRoll", uid, id, NoId,
                         CreateRoll(db, uid, id, "COMBAT", ra, rb),
                         [type |-> "COMBAT", rollA |-> rollDie(ra), rollB |-> rollDie(rb)])

NextRoll ==
    \/ DoCreateRoll
    \/ DoListRolls
    \/ RollCreateRoll

SpecRoll == InitRoll /\ [][NextRoll]_vars

\* the roll a request appended to the log
LastRoll(d) == d.rolls[Len(d.rolls)]

\* C15: every roll a request stores has a result in 1..100; a REGULAR roll's
\* result is its one draw, and a COMBAT roll's result is floor((a + b + 1) / 2)
\* for its two draws a and b, each in 1..100.
RollResultRule ==
    [][(resp'.op = "CreateRoll" /\ resp'.status = 200)
       => /\ Len(db'.rolls) = Len(db.rolls) + 1
          /\ LastRoll(db').result \in 1..Sides
          /\ LastRoll(db').userId = resp'.caller
          /\ "rollA" \in DOMAIN resp' =>
               /\ resp'.rollA \in 1..Sides
               /\ LastRoll(db').type = resp'.type
               /\ resp'.type = "REGULAR" => LastRoll(db').result = resp'.rollA
               /\ resp'.type = "COMBAT" =>
                    /\ resp'.rollB \in 1..Sides
                    /\ LastRoll(db').result
                         = (resp'.rollA + resp'.rollB + 1) \div 2]_vars

\* a combat roll whose draws 100 and 99 have the mean 99.5 was stored as 100
HalfRoundedUp ==
    /\ resp.op = "CreateRoll"
    /\ resp.status = 200
    /\ "rollA" \in DOMAIN resp
    /\ resp.type = "COMBAT"
    /\ resp.rollA = Sides /\ resp.rollB = Sides - 1
    /\ LastRoll(db).type = "COMBAT"
    /\ LastRoll(db).result = Sides

-----------------------------------------------------------------------------
(* The audit log under every route (specification Spec) *)

\* the mutations of a map or a character that are to leave an audit record
AuditedOps ==
    {"CreateMap", "UpdateMap", "CreateCharacter", "UpdateCharacter",
     "AddInventory", "RemoveInventory", "AddSkill", "RemoveSkill",
     "UpdateHp", "EquipWeapon", "UpdateInventory", "ReorderInventory"}

\* the id of the map or character a successful audited request acted on
AuditedEntity(d, r) ==
    IF r.op = "CreateMap" THEN d.nextMap
    ELSE IF r.op = "CreateCharacter" THEN d.nextCharacter
    ELSE r.id

LastAudit(d) == d.audit[Len(d.audit)]

\* C16: no request changes or removes a record already in the audit log, and
\* every audited mutation answered 200 appends exactly one record, carrying
\* the entity's id, the acting user's id and the entity's campaign id.
AuditAppendOnlyAndComplete ==
    [][/\ Len(db'.audit) >= Len(db.audit)
       /\ SubSeq(db'.audit, 1, Len(db.audit)) = db.audit
       /\ (resp'.op \in AuditedOps /\ resp'.status = 200)
          => /\ Len(db'.audit) = Len(db.audit) + 1
             /\ LastAudit(db').entityId = AuditedEntity(db, resp')
             /\ LastAudit(db').userId = resp'.caller
             /\ LastAudit(db').campaignId
                  = (IF LastAudit(db').entityType = "MAP"
                     THEN Get(db'.maps, LastAudit(db').entityId).campaignId
                     ELSE Get(db'.characters, LastAudit(db').entityId).campaignId)]_vars

\* the statuses of a request refused as unauthenticated, forbidden, not
\* found, invalid or conflicting
RejectedStatuses == {400, 401, 403, 404}

\* C17: a request answered 400, 401, 403 or 404 leaves the whole store
\* (entities, memberships, inventory rows, tokens, tiles, rolls and audit
\* records) exactly as it was before the request.
RejectedChangesNothing ==
    [][resp'.status \in RejectedStatuses => db' = db]_vars

\* the owning player was refused a staff by the category check, which the
\* handler reaches after the lookup, the gate, the owner rule and the row
\* lookup
LateCheckRefused ==
    /\ resp.op = "EquipWeapon"
    /\ resp.status = 400
    /\ resp.error = "Only weapons can be equipped"
    /\ Has(db.characters, resp.id)
    /\ Get(db.characters, resp.id).ownerId = resp.caller
    /\ EquippedOf(db, resp.id) # resp.sub
    /\ db.audit = SeedWorld.audit

\* C19: no stored tileset has more than 4096 tiles (columns x rows) and no
\* stored preset more than 4096 cells (tileCountX x tileCountY): every
\* request over the ceiling was rejected before a record was written.
StoredWithinMaxTiles ==
    /\ \A t \in db.tileSets : t.columns * t.rows <= MAX_TILES
    /\ \A p \in db.presets : p.tileCountX * p.tileCountY <= MAX_TILES

-----------------------------------------------------------------------------
(* Members added and updated in sequence.  The store starts with campaign 1 *)
(* (u1 DM, u2 PLAYER) and campaign 2 (u3 DM); the reply records the body it *)
(* answers.                                                                 *)

MemRequests == 2

InitMem ==
    /\ db = SeedWorld
    /\ resp = Idle
    /\ budget = MemRequests
    /\ pending = {}

MemAddMember ==
    /\ budget > 0
    /\ \E uid \in Callers, id \in Ids(db.campaigns, db.nextCampaign) :
         \E body \in AddMemberBodies :
           AnswerWith("AddMember", uid, id, NoId, AddMember(db, uid, id, body),
                      [body |-> body])

NextMem == MemAddMember

SpecMem == InitMem /\ [][NextMem]_vars

\* the membership rows of a (user, campaign) pair
RowsOfPair(d, userId, campaignId) ==
    {m \in d.members : m.userId = userId /\ m.campaignId = campaignId}

\* C18: after every add-member request no (user, campaign) pair has more than
\* one membership row.  A request answered 200 leaves exactly one row for its
\* pair, with the role it sent (PLAYER when it sent none), and every other
\* row as it was; sending the same request again leaves the same rows.  A
\* DM's request whose email belongs to no user is answered 404 and changes
\* nothing.
MemberUpsertRule ==
    [][resp'.op = "AddMember"
       => /\ \A m1, m2 \in db'.members :
                (m1.userId = m2.userId /\ m1.campaignId = m2.campaignId) => m1 = m2
          /\ resp'.status = 200
             => /\ resp'.body.email \in Users
                /\ RowsOfPair(db', resp'.body.email, resp'.id)
                     = {[userId |-> resp'.body.email, campaignId |-> resp'.id,
                         role |-> IF "role" \in DOMAIN resp'.body
                                  THEN resp'.body.role ELSE "PLAYER"]}
                /\ db'.members \ RowsOfPair(db', resp'.body.email, resp'.id)
                     = db.members \ RowsOfPair(db, resp'.body.email, resp'.id)
                /\ AddMember(db', resp'.caller, resp'.id, resp'.body).db = db'
          /\ (/\ RoleIn(db, resp'.caller, resp'.id) = "DM"
              /\ resp'.body.email \notin Users)
             => (resp'.status = 404 /\ db' = db)]_vars

\* the player of campaign 1 was made DM by a second request for the same
\* user: one row for the pair, with the role sent last
RoleReplacedByLaterRequest ==
    /\ resp.op = "AddMember"
    /\ resp.status = 200
    /\ resp.id = 1
    /\ resp.body = [email |-> "u2", role |-> "DM"]
    /\ RowsOfPair(SeedWorld, "u2", 1) = {[userId |-> "u2", campaignId |-> 1, role |-> "PLAYER"]}
    /\ RowsOfPair(db, "u2", 1) = {[userId |-> "u2", campaignId |-> 1, role |-> "DM"]}

-----------------------------------------------------------------------------
(* Accounts and sessions: routes/auth, plugins/session.  Under SpecAuth the *)
(* store also holds the accounts (email and password hash of each user) and *)
(* the session store: one entry per saved session, keyed by the session id  *)
(* the cookie carries.  A request with no cookie, or with a cookie whose    *)
(* entry is gone, gets a fresh session with a new id; the session is saved  *)
(* and its cookie issued only when the handler set userId on it.            *)

MinPasswordLen == 6

NoCookie == NoId

\* bcrypt.hash / bcrypt.compare
Hash(password) == <<"bcrypt", password>>
Compare(password, passwordHash) == passwordHash = Hash(password)

\* store.get: the userId of the session the cookie names, NoUser when the
\* cookie is absent or names no stored session
SessionGet(d, cookie) ==
    IF \E s \in d.sessions : s.sid = cookie
    THEN (CHOOSE s \in d.sessions : s.sid = cookie).userId
    ELSE NoUser

\* the id of the session a request runs with
SessionIdOf(d, cookie) ==
    IF \E s \in d.sessions : s.sid = cookie THEN cookie ELSE d.nextSession

\* store.set at the end of a request that assigned request.session.userId
SessionSet(d, sid, userId) ==
    [d EXCEPT !.sessions = {s \in @ : s.sid # sid} \cup {[sid |-> sid, userId |-> userId]},
              !.nextSession = IF sid = @ THEN @ + 1 ELSE @]

\* a destroy that leaves the entry in the store
SessionDestroyKeeps(d, sid) == d

\* store.destroy
SessionDestroy(d, sid) ==
    [d EXCEPT !.sessions = {s \in @ : s.sid # sid}]

\* registerSchema / loginSchema: the password's min(6); emails are well formed
CredentialsValid(body) == Len(body.password) >= MinPasswordLen

Issued(out, sid) == out @@ [issued |-> sid]

\* POST /auth/register
Register(d, cookie, body) ==
    IF ~CredentialsValid(body) THEN Issued(Invalid(d), NoCookie)
    ELSE IF \E a \in d.accounts : a.email = body.email
    THEN Issued(Fail(d, 400, "Email already registered"), NoCookie)
    ELSE LET user == [id |-> body.email, email |-> body.email,
                      passwordHash |-> Hash(body.password)]
             d1 == [d EXCEPT !.accounts = @ \cup {user}, !.users = @ \cup {user.id}]
             sid == SessionIdOf(d, cookie)
         IN Issued(Ok(SessionSet(d1, sid, user.id)), sid)

\* POST /auth/login
Login(d, cookie, body) ==
    IF ~CredentialsValid(body) THEN Issued(Invalid(d), NoCookie)
    ELSE IF ~(\E a \in d.accounts : a.email = body.email)
    THEN Issued(Fail(d, 401, "Invalid credentials"), NoCookie)
    ELSE LET user == CHOOSE a \in d.accounts : a.email = body.email IN
         IF ~Compare(body.password, user.passwordHash)
         THEN Issued(Fail(d, 401, "Invalid credentials"), NoCookie)
         ELSE LET sid == SessionIdOf(d, cookie) IN
              Issued(Ok(SessionSet(d, sid, user.id)), sid)

\* POST /auth/logout
Logout(d, cookie) ==
    Issued(Ok(SessionDestroy(d, SessionIdOf(d, cookie))), NoCookie)

AuthRequests == 4
MaxSessions == 2

AuthEmails == {"u1", "u2", "ghost"}
AuthPasswords == {"secret", "guess7", "short"}

\* every user of the seeded world has registered with the password "secret";
\* no session is stored
InitAuth ==
    /\ db = SeedWorld @@ [accounts |-> {[id |-> u, email |-> EmailOf(u),
                                         passwordHash |-> Hash("secret")] : u \in Users},
                          sessions |-> {}, nextSession |-> 1]
    /\ resp = Idle
    /\ budget = AuthRequests
    /\ pending = {}

\* the cookies a client can present: none, every id issued so far, and one no
\* request was issued
Cookies == NoCookie..db.nextSession

AuthAnswer(op, cookie, email, password, out) ==
    /\ out.db.nextSession <= MaxSessions + 1
    /\ AnswerWith(op, SessionGet(db, cookie), NoId, NoId, out,
                  [cookie |-> cookie, issued |-> out.issued, email |-> email,
                   password |-> password])

AuthRegister ==
    /\ budget > 0
    /\ \E cookie \in Cookies, email \in AuthEmails, password \in AuthPasswords :
         AuthAnswer("Register", cookie, email, password,
                    Register(db, cookie, [email |-> email, password |-> password]))

AuthLogin ==
    /\ budget > 0
    /\ \E cookie \in Cookies, email \in AuthEmails, password \in AuthPasswords :
         AuthAnswer("Login", cookie, email, password,
                    Login(db, cookie, [email |-> email, password |-> password]))

AuthLogout ==
    /\ budget > 0
    /\ \E cookie \in Cookies :
         AuthAnswer("Logout", cookie, "", "", Logout(db, cookie))

\* a protected request: GET /auth/me or GET /campaigns with the cookie
AuthProtected ==
    /\ budget > 0
    /\ \E cookie \in Cookies :
         \/ AuthAnswer("GetMe", cookie, "", "",
                       Issued(GetMe(db, SessionGet(db, cookie)), NoCookie))
         \/ AuthAnswer("ListCampaigns", cookie, "", "",
                       Issued(ListCampaigns(db, SessionGet(db, cookie)), NoCookie))

NextAuth ==
    \/ AuthRegister
    \/ AuthLogin
    \/ AuthLogout
    \/ AuthProtected

SpecAuth == InitAuth /\ [][NextAuth]_vars

SessionIds == 0..(MaxSessions + 1)

\* C20: a register or login answered 200 issues a session cookie that
\* resolves to that user; a logout answered 200 leaves the cookie it presented
\* resolving to no user; a protected request is answered 200 exactly when its
\* cookie resolves to a user and 401 otherwise; a login or register that is not
\* answered 200 changes no session and no account; and the user a cookie
\* resolves to changes only by a successful login or register that issues
\* that cookie or by a logout that presented it, so a cookie that was logged
\* out is answered 401 until a login or register issues a session again.
SessionLifecycle ==
    [][/\ (resp'.op \in {"Register", "Login"} /\ resp'.status = 200)
          => /\ resp'.issued # NoCookie
             /\ SessionGet(db', resp'.issued) = resp'.email
             /\ resp'.email \in db'.users
       /\ (resp'.op \in {"Register", "Login"} /\ resp'.status # 200)
          => /\ resp'.status \in {400, 401}
             /\ resp'.issued = NoCookie
             /\ db' = db
       /\ (/\ resp'.op = "Login"
           /\ ~(\E a \in db.accounts : /\ a.email = resp'.email
                                       /\ a.passwordHash = <<"bcrypt", resp'.password>>))
          => /\ resp'.status \in {400, 401}
             /\ db' = db
       /\ (resp'.op = "Logout" /\ resp'.status = 200)
          => SessionGet(db', resp'.cookie) = NoUser
       /\ resp'.op \in {"GetMe", "ListCampaigns"}
          => /\ resp'.status = (IF SessionGet(db, resp'.cookie) = NoUser THEN 401 ELSE 200)
             /\ resp'.caller = SessionGet(db, resp'.cookie)
             /\ db' = db
       /\ \A c \in SessionIds :
            SessionGet(db', c) # SessionGet(db, c)
            => \/ /\ resp'.op \in {"Register", "Login"}
                  /\ resp'.status = 200
                  /\ resp'.issued = c
               \/ /\ resp'.op = "Logout"
                  /\ resp'.status = 200
                  /\ resp'.cookie = c]_vars

\* a protected request presenting a cookie that a login had issued and a
\* logout has since destroyed was answered 401
LoggedOutCookieRefused ==
    /\ resp.op = "GetMe"
    /\ resp.cookie # NoCookie
    /\ resp.cookie < db.nextSession
    /\ SessionGet(db, resp.cookie) = NoUser
    /\ resp.status = 401

-----------------------------------------------------------------------------
(* Class-skill grant in steps.  The character update awaits its write, then  *)
(* the reads of addMissingClassSkills, then createMany; the manual skill add *)
(* awaits its lookup and then its create.  Other requests run in between.    *)

SkillRequests == 3    \* requests sent in one behaviour of SpecSkill

\* CharacterSkill is keyed by (characterId, skillId) (findUnique is keyed by
\* characterId_skillId): the store holds no second row with the same pair
SkillPairUniqueOk(rows, characterId, skillId) ==
    ~(\E r \in rows : r.characterId = characterId /\ r.skillId = skillId)

\* the ids of the catalog skills named by the class's skill list
availableSkills(className) ==
    IF className = NullStr \/ className \notin ClassNames THEN {}
    ELSE LET gameClass == CHOOSE c \in GameClasses : c.name = className
             classSkills == normalizeClassSkills(gameClass.skills)
             names == {classSkills[i] : i \in 1..Len(classSkills)}
         IN {s.id : s \in {x \in Skills : x.name \in names}}

\* the reads of addMissingClassSkills: the class skills the character lacks
ClassSkillsToCreate(d, characterId, className) ==
    LET existingIds == {r.skillId : r \in {x \in d.charSkills : x.characterId = characterId}}
    IN availableSkills(className) \ existingIds

\* createMany that inserts every row it is given
createManyAll(d, characterId, toCreate) == CreateSkillRows(d, characterId, toCreate)

\* createMany({ data: toCreate, skipDuplicates: true }): rows whose pair is
\* stored already are skipped
createManySkipDuplicates(d, characterId, toCreate) ==
    CreateSkillRows(d, characterId,
        {s \in toCreate : SkillPairUniqueOk(d.charSkills, characterId, s)})

\* character lookup, requireDM, updateSchema.parse and prisma.character.update
UpdateCharacterStore(d, uid, id, body) ==
    IF ~Has(d.characters, id) THEN Fail(d, 404, "Character not found")
    ELSE LET existing == Get(d.characters, id)
             g == requireDM(d, uid, existing.campaignId) IN
         IF g.status # 200 THEN Fail(d, g.status, g.error)
         ELSE IF ~CharacterBodyValid(body, FALSE) THEN Invalid(d)
         ELSE LET nextKind == Field(body, "kind", existing.kind)
                  character == [existing EXCEPT
                      !.name = Field(body, "name", existing.name),
                      !.stats = Field(body, "stats", existing.stats),
                      !.ownerId = UpdateOwnerId(body, nextKind, existing),
                      !.kind = nextKind,
                      !.className = Field(body, "className", existing.className),
                      !.level = Field(body, "level", existing.level),
                      !.exp = Field(body, "exp", existing.exp),
                      !.weaponSkills = Field(body, "weaponSkills", existing.weaponSkills),
                      !.currentHp = Field(body, "currentHp", existing.currentHp)]
              IN Ok([d EXCEPT !.characters = Replace(@, character)])

\* character lookup, requireDM, skill lookup and the lookup of the pair
AddSkillGate(d, uid, id, skillId) ==
    IF ~Has(d.characters, id) THEN Fail(d, 404, "Character not found")
    ELSE LET g == requireDM(d, uid, Get(d.characters, id).campaignId) IN
         IF g.status # 200 THEN Fail(d, g.status, g.error)
         ELSE IF ~Has(Skills, skillId) THEN Fail(d, 404, "Skill not found")
         ELSE IF \E r \in d.charSkills : r.characterId = id /\ r.skillId = skillId
         THEN Fail(d, 400, "Skill already added")
         ELSE Ok(d)

\* prisma.characterSkill.create: refused by the store when the pair exists
AddSkillWrite(d, id, skillId) ==
    IF ~SkillPairUniqueOk(d.charSkills, id, skillId)
    THEN Fail(d, 500, "Internal Server Error")
    ELSE Ok(CreateSkillRows(d, id, {skillId}))

SkillCallers == {"u1", "u2"}          \* the DM and a PLAYER of campaign 1
SkillClassBodies == {[className |-> c] : c \in {"Cat", "Fighter", NullStr}}

InitSkill ==
    /\ db = SeedWorld
    /\ resp = Idle
    /\ budget = SkillRequests
    /\ pending = {}

\* a character created with a class: nothing else names the new row before
\* the handler ends (the last request of a behaviour)
SklCreateCharacter ==
    /\ budget = 1
    /\ \E uid \in SkillCallers, body \in SkillClassBodies :
          AnswerWith("CreateCharacter", uid, 1, db.nextCharacter,
                     CreateCharacter(db, uid, 1, BaseCharacter @@ body),
                     [className |-> body.className])

\* the handler up to the reads of addMissingClassSkills
SklBeginUpdateCharacter ==
    /\ budget > 0
    /\ Cardinality(pending) < MaxInFlight
    /\ budget' = budget - 1
    /\ \E uid \in SkillCallers, id \in Ids(db.characters, db.nextCharacter),
          body \in SkillClassBodies \cup {[name |-> "Zed"]} :
          LET out == UpdateCharacterStore(db, uid, id, body) IN
          IF out.status # 200
          THEN resp' = [op |-> "UpdateCharacter", caller |-> uid, id |-> id, sub |-> NoId,
                        status |-> out.status, error |-> out.error]
               /\ UNCHANGED <<db, pending>>
          ELSE LET className == Get(out.db.characters, id).className IN
               /\ db' = out.db
               /\ pending' = pending \cup
                     {[op |-> "UpdateCharacter", rid |-> budget, caller |-> uid, id |-> id,
                       className |-> className, before |-> db.charSkills,
                       toCreate |-> ClassSkillsToCreate(out.db, id, className)]}
               /\ UNCHANGED resp

\* createMany resolves, the audit record is written and the reply is sent
SklCommitUpdateCharacter ==
    \E p \in pending :
        /\ p.op = "UpdateCharacter"
        /\ LET d1 == createManySkipDuplicates(db, p.id, p.toCreate)
               d2 == writeAuditLog(d1, "CHARACTER", p.id, "CHARACTER_UPDATE",
                                   Get(db.characters, p.id).campaignId, p.caller) IN
           /\ WithinBounds(d2)
           /\ db' = d2
           /\ resp' = [op |-> "UpdateCharacter", caller |-> p.caller, id |-> p.id,
                       sub |-> NoId, status |-> 200, error |-> "",
                       className |-> p.className, before |-> p.before,
                       skipped |-> {s \in p.toCreate :
                                      ~SkillPairUniqueOk(db.charSkills, p.id, s)}]
        /\ pending' = pending \ {p}
        /\ UNCHANGED budget

SklBeginAddSkill ==
    /\ budget > 0
    /\ Cardinality(pending) < MaxInFlight
    /\ budget' = budget - 1
    /\ \E uid \in SkillCallers, id \in Ids(db.characters, db.nextCharacter),
          skillId \in {s.id : s \in Skills} :
          LET gate == AddSkillGate(db, uid, id, skillId) IN
          IF gate.status # 200
          THEN resp' = [op |-> "AddSkill", caller |-> uid, id |-> id, sub |-> skillId,
                        status |-> gate.status, error |-> gate.error]
               /\ UNCHANGED <<db, pending>>
          ELSE /\ pending' = pending \cup
                     {[op |-> "AddSkill", rid |-> budget, caller |-> uid, id |-> id,
                       skillId |-> skillId]}
               /\ UNCHANGED <<db, resp>>

SklCommitAddSkill ==
    \E p \in pending :
        /\ p.op = "AddSkill"
        /\ LET out == AddSkillWrite(db, p.id, p.skillId) IN
           /\ WithinBounds(out.db)
           /\ db' = out.db
           /\ resp' = [op |-> "AddSkill", caller |-> p.caller, id |-> p.id,
                       sub |-> p.skillId, status |-> out.status, error |-> out.error]
        /\ pending' = pending \ {p}
        /\ UNCHANGED budget

NextSkill ==
    \/ SklCreateCharacter
    \/ SklBeginUpdateCharacter
    \/ SklCommitUpdateCharacter
    \/ SklBeginAddSkill
    \/ SklCommitAddSkill

SpecSkill == InitSkill /\ [][NextSkill]_vars

SkillIdsOf(d, characterId) ==
    {r.skillId : r \in {x \in d.charSkills : x.characterId = characterId}}

GrantOps == {"CreateCharacter", "UpdateCharacter"}

\* the character a granted reply is about
GrantedCharacter(r) == IF r.op = "CreateCharacter" THEN r.sub ELSE r.id

\* C21: no step removes a character's skill; when a character create or update
\* is answered 200 the character has every skill it had when the request
\* arrived and every catalog skill named by the class the request stored; and
\* no (character, skill) pair is ever stored in two rows
ClassSkillGrantRule ==
    [][/\ \A c \in db.characters : SkillIdsOf(db, c.id) \subseteq SkillIdsOf(db', c.id)
       /\ (Replied /\ resp'.op \in GrantOps /\ resp'.status = 200) =>
              LET c == GrantedCharacter(resp') IN
              /\ availableSkills(resp'.className) \subseteq SkillIdsOf(db', c)
              /\ (resp'.op = "UpdateCharacter" =>
                     {r.skillId : r \in {x \in resp'.before : x.characterId = c}}
                         \subseteq SkillIdsOf(db', c))
       /\ \A r1, r2 \in db'.charSkills :
              (r1.characterId = r2.characterId /\ r1.skillId = r2.skillId) => r1.id = r2.id
      ]_vars

\* a manual add of the class skill ran between the grant's reads and its
\* createMany: the grant skipped the pair and the update was answered 200
GrantSkippedStoredPair ==
    /\ resp.op = "UpdateCharacter"
    /\ resp.status = 200
    /\ resp.skipped # {}
    /\ resp.skipped \subseteq availableSkills(resp.className)
    /\ Cardinality({r \in db.charSkills : r.characterId = resp.id}) =
           Cardinality(SkillIdsOf(db, resp.id))

-----------------------------------------------------------------------------
(* Character update, field by field *)

UpdRequests == 2      \* requests sent in one behaviour of SpecUpd

SwordRankE == <<[weapon |-> "sword", rank |-> "E"]>>

\* bodies that carry one field each, the kind and owner combinations, and two
\* bodies updateSchema refuses
FieldUpdateBodies ==
    KindOwnerUpdateBodies
    \cup {[name |-> "Mist"], [stats |-> [growths |-> 1]], [level |-> 2],
          [exp |-> 0], [exp |-> 1], [weaponSkills |-> {<<>>}],
          [weaponSkills |-> {SwordRankE}], [currentHp |-> 0],
          [className |-> "Fighter"], [className |-> NullStr],
          [name |-> "Mist", exp |-> 1, className |-> "Fighter"],
          [level |-> 0], [exp |-> 0 - 1]}

InitUpd ==
    /\ db = SeedWorld
    /\ resp = Idle
    /\ budget = UpdRequests
    /\ pending = {}

UpdUpdateCharacter ==
    /\ budget > 0
    /\ \E id \in Ids(db.characters, db.nextCharacter), body \in FieldUpdateBodies :
          AnswerWith("UpdateCharacter", "u1", id, NoId,
                     UpdateCharacter(db, "u1", id, body), [body |-> body])

NextUpd == UpdUpdateCharacter \/ DoEquipWeapon

SpecUpd == InitUpd /\ [][NextUpd]_vars

PlainFields == {"name", "stats", "kind", "className", "level", "exp",
                "weaponSkills", "currentHp"}

\* field f of the character is the supplied value, or the stored one when the
\* body omits f
ReplacedIfPresent(before, after, body, f) ==
    after[f] = (IF f \in DOMAIN body THEN body[f] ELSE before[f])

\* the update touched nothing but the nine fields of one character (and the
\* skills and audit records its handler writes)
UpdateFrame(d, e, id) ==
    /\ Get(e.characters, id).campaignId = Get(d.characters, id).campaignId
    /\ Get(e.characters, id).equippedWeaponItemId = Get(d.characters, id).equippedWeaponItemId
    /\ e.inventory = d.inventory
    /\ \A c \in d.characters : c.id # id => c \in e.characters

AcceptedUpdate == resp'.op = "UpdateCharacter" /\ resp'.status = 200

\* C22 as stated: every one of the nine fields, ownerId included, is the
\* supplied value when the body carries it and the stored value otherwise
ReplaceIfPresentAllFields ==
    [][AcceptedUpdate =>
          LET before == Get(db.characters, resp'.id)
              after == Get(db'.characters, resp'.id) IN
          /\ \A f \in PlainFields \cup {"ownerId"} :
                 ReplacedIfPresent(before, after, resp'.body, f)
          /\ UpdateFrame(db, db', resp'.id)
      ]_vars

\* C22 (amended): name, stats, kind, className, level, exp, weaponSkills and
\* currentHp are the supplied value when the body carries the field and the
\* stored value otherwise; ownerId is null when the resulting kind is not
\* PLAYER, else the supplied owner when one is supplied and not null, else the
\* stored owner; campaignId, the inventory rows and equippedWeaponItemId are
\* unchanged
ReplaceIfPresentOwnerByKind ==
    [][AcceptedUpdate =>
          LET before == Get(db.characters, resp'.id)
              after == Get(db'.characters, resp'.id)
              body == resp'.body IN
          /\ \A f \in PlainFields : ReplacedIfPresent(before, after, body, f)
          /\ after.kind # "PLAYER" => after.ownerId = NullStr
          /\ (after.kind = "PLAYER" /\ "ownerId" \in DOMAIN body /\ body.ownerId # NullStr)
                 => after.ownerId = body.ownerId
          /\ (after.kind = "PLAYER" /\ ("ownerId" \notin DOMAIN body \/ body.ownerId = NullStr))
                 => after.ownerId = before.ownerId
          /\ UpdateFrame(db, db', resp'.id)
      ]_vars

\* an update that supplied a null owner for a PLAYER was accepted and the
\* character, which holds an equipped weapon, still has its owner
NullOwnerKeptOwner ==
    /\ resp.op = "UpdateCharacter"
    /\ resp.status = 200
    /\ "ownerId" \in DOMAIN resp.body
    /\ resp.body.ownerId = NullStr
    /\ Get(db.characters, resp.id).kind = "PLAYER"
    /\ Get(db.characters, resp.id).ownerId # NullStr
    /\ Get(db.characters, resp.id).equippedWeaponItemId # NoId

-----------------------------------------------------------------------------
(* Equip-weapon in steps.  The handler awaits the lookup of the inventory     *)
(* row and then the character update; an inventory remove runs in between.    *)

SlotRequests == 3     \* requests sent in one behaviour of SpecSlot

\* Character.equippedWeaponItem is a relation to CharacterItem: the store
\* refuses a character row that names an inventory row which does not exist
EquippedFkOk(d, inventoryId) == inventoryId = NoId \/ Has(d.inventory, inventoryId)

\* the handler up to the character update: every check of EquipWeapon
EquipWeaponGate(d, uid, id, inventoryId) ==
    LET out == EquipWeapon(d, uid, id, inventoryId) IN
    IF out.status # 200 THEN out ELSE Ok(d)

\* prisma.character.update({ data: { equippedWeaponItemId } }) and the audit
\* record
EquipWeaponWrite(d, uid, id, inventoryId) ==
    IF ~EquippedFkOk(d, inventoryId) THEN Fail(d, 500, "Internal Server Error")
    ELSE LET character == Get(d.characters, id)
             d1 == [d EXCEPT !.characters =
                       Replace(@, [character EXCEPT !.equippedWeaponItemId = inventoryId])]
         IN Ok(writeAuditLog(d1, "CHARACTER", id, "EQUIPPED_WEAPON_UPDATE",
                             character.campaignId, uid))

SlotCallers == {"u1", "u2"}           \* the DM and the owner of character 1
SlotCharacters == {1, 2}              \* the characters of campaign 1: both hold rows

InitSlot ==
    /\ db = SeedWorld
    /\ resp = Idle
    /\ budget = SlotRequests
    /\ pending = {}

SlotBeginEquipWeapon ==
    /\ budget > 0
    /\ Cardinality(pending) < MaxInFlight
    /\ budget' = budget - 1
    /\ \E uid \in SlotCallers, id \in SlotCharacters,
          sub \in Ids(db.inventory, db.nextInvRow) \cup {NoId} :
          LET gate == EquipWeaponGate(db, uid, id, sub) IN
          IF gate.status # 200
          THEN resp' = [op |-> "EquipWeapon", caller |-> uid, id |-> id, sub |-> sub,
                        status |-> gate.status, error |-> gate.error]
               /\ UNCHANGED <<db, pending>>
          ELSE /\ pending' = pending \cup
                     {[op |-> "EquipWeapon", rid |-> budget, caller |-> uid, id |-> id,
                       sub |-> sub]}
               /\ UNCHANGED <<db, resp>>

SlotCommitEquipWeapon ==
    \E p \in pending :
        /\ p.op = "EquipWeapon"
        /\ LET out == EquipWeaponWrite(db, p.caller, p.id, p.sub) IN
           /\ db' = out.db
           /\ resp' = [op |-> "EquipWeapon", caller |-> p.caller, id |-> p.id,
                       sub |-> p.sub, status |-> out.status, error |-> out.error]
        /\ pending' = pending \ {p}
        /\ UNCHANGED budget

SlotRemoveInventory ==
    /\ budget > 0
    /\ \E uid \in SlotCallers, id \in SlotCharacters,
          sub \in Ids(db.inventory, db.nextInvRow) :
          Answer("RemoveInventory", uid, id, sub, RemoveInventory(db, uid, id, sub))

NextSlot ==
    \/ SlotBeginEquipWeapon
    \/ SlotCommitEquipWeapon
    \/ SlotRemoveInventory

SpecSlot == InitSlot /\ [][NextSlot]_vars

-----------------------------------------------------------------------------
(* Inventory add after removes *)

AddRequests == 3      \* requests sent in one behaviour of SpecAdd

AddCallers == {"u1", "u3"}            \* the DMs of campaigns 1 and 2
AddCharacters == {1, 2, 3}            \* the seeded characters; character 3 holds no row
AddBodies ==
    {[itemId |-> i] : i \in ItemIds \cup {NoId}}
    \cup {[itemId |-> i, uses |-> MaxCoord] : i \in ItemIds}

InitAdd ==
    /\ db = SeedWorld
    /\ resp = Idle
    /\ budget = AddRequests
    /\ pending = {}

AddAddInventory ==
    /\ budget > 0
    /\ \E uid \in AddCallers, id \in AddCharacters, body \in AddBodies :
          AnswerWith("AddInventory", uid, id, NoId, AddInventory(db, uid, id, body),
                     [body |-> body])

\* a stored row removed by the DM of campaign 1
AddRemoveInventory ==
    /\ budget > 0
    /\ \E r \in db.inventory :
          Answer("RemoveInventory", "u1", r.characterId, r.id,
                 RemoveInventory(db, "u1", r.characterId, r.id))

NextAdd == AddAddInventory \/ AddRemoveInventory

SpecAdd == InitAdd /\ [][NextAdd]_vars

\* C24: an inventory add answered 200 stores exactly one new row, of the named
\* character and item, whose sortOrder is one more than the largest sortOrder
\* of the character's rows (0 when it has none), and leaves every stored row
\* as it was; an add that is not answered 200 stores nothing, and a DM's add
\* naming an item that does not exist is answered 404
AddAppendsOneRow ==
    [][resp'.op = "AddInventory" =>
          LET id == resp'.id
              body == resp'.body
              rows == InventoryOf(db, id)
              created == db'.inventory \ db.inventory IN
          /\ db.inventory \subseteq db'.inventory
          /\ resp'.status = 200 =>
                /\ Cardinality(created) = 1
                /\ \A row \in created :
                      /\ row.characterId = id
                      /\ row.itemId = body.itemId
                      /\ \A r \in rows : r.sortOrder < row.sortOrder
                      /\ \/ rows = {} /\ row.sortOrder = 0
                         \/ \E r \in rows : row.sortOrder = r.sortOrder + 1
          /\ resp'.status # 200 => created = {}
          /\ ~Has(Items, body.itemId) =>
                /\ resp'.status # 200
                /\ RoleIn(db, resp'.caller, Get(db.characters, id).campaignId) = "DM"
                      => (resp'.status = 404 /\ resp'.error = "Item not found")
      ]_vars

\* a row was added to a character whose rows have a gap in their sortOrder
\* values: the new row's sortOrder is past the number of rows the character had
AddedAfterGap ==
    /\ resp.op = "AddInventory"
    /\ resp.status = 200
    /\ \E row \in InventoryOf(db, resp.id) :
          /\ row.id = db.nextInvRow - 1
          /\ row.sortOrder >= InvCount(db, resp.id)

-----------------------------------------------------------------------------
(* Token and character campaigns *)

\* the campaign a token request is scoped to: the campaign of the map a create
\* names, or of the map of the token an update names
TokenRequestCampaign(d, r) ==
    IF r.op = "CreateToken"
    THEN (IF Has(d.maps, r.id) THEN Get(d.maps, r.id).campaignId ELSE NoId)
    ELSE (IF Has(d.tokens, r.id) THEN Get(d.maps, Get(d.tokens, r.id).mapId).campaignId
          ELSE NoId)

CampaignOfCharacter(d, characterId) ==
    IF Has(d.characters, characterId) THEN Get(d.characters, characterId).campaignId
    ELSE NoId

\* C25: every token is bound to a stored character whose campaign is the
\* campaign of the token's map, after every step of token create, token update
\* and token:move; a create or update that names a character which is missing
\* or belongs to another campaign is never answered 200
TokenCharacterInMapCampaign ==
    [][/\ \A t \in db'.tokens :
              /\ Has(db'.characters, t.characterId)
              /\ Get(db'.characters, t.characterId).campaignId =
                     Get(db'.maps, t.mapId).campaignId
       /\ (/\ resp' # resp
           /\ resp'.op \in TokenWriteOps
           /\ "characterId" \in DOMAIN resp'
           /\ \/ CampaignOfCharacter(db, resp'.characterId) = NoId
              \/ CampaignOfCharacter(db, resp'.characterId) # TokenRequestCampaign(db, resp'))
          => resp'.status # 200
      ]_vars

\* the DM asked to bind a token of campaign 1 to a character of another
\* campaign and was answered 400; the token is bound as before
RebindAcrossCampaignsRefused ==
    /\ resp.op = "UpdateToken"
    /\ resp.caller = "u1"
    /\ resp.status = 400
    /\ "characterId" \in DOMAIN resp
    /\ Has(db.characters, resp.characterId)
    /\ Has(db.tokens, resp.id)
    /\ Get(db.characters, resp.characterId).campaignId #
           Get(db.maps, Get(db.tokens, resp.id).mapId).campaignId
    /\ Get(db.tokens, resp.id).characterId # resp.characterId

-----------------------------------------------------------------------------
(* Inventory reorder in steps.  The handler awaits the validation read and   *)
(* then the transaction; reads, adds, removes and other reorders of the same  *)
(* character run in between.                                                  *)

TxRequests == 3       \* requests sent in one behaviour of SpecTx

InitTx ==
    /\ db = SeedRows(SeedCharacters, OrderSeedRows)
    /\ resp = Idle
    /\ budget = TxRequests
    /\ pending = {}

\* the handler up to the comparison of orderedIds with the rows read
TxBeginReorder ==
    /\ budget > 0
    /\ Cardinality(pending) < MaxInFlight
    /\ budget' = budget - 1
    /\ \E uid \in InvCallers, orderedIds \in OrderSamples(db, InvCharacter) :
          LET gate == ReorderGate(db, uid, InvCharacter, orderedIds) IN
          IF gate.status # 200
          THEN resp' = [op |-> "ReorderInventory", caller |-> uid, id |-> InvCharacter,
                        sub |-> NoId, status |-> gate.status, error |-> gate.error,
                        orderedIds |-> orderedIds]
               /\ UNCHANGED <<db, pending>>
          ELSE /\ pending' = pending \cup
                     {[op |-> "ReorderInventory", rid |-> budget, caller |-> uid,
                       id |-> InvCharacter, orderedIds |-> orderedIds]}
               /\ UNCHANGED <<db, resp>>

\* prisma.$transaction resolves or rejects, the audit record is written and
\* the reply is sent
TxCommitReorder ==
    \E p \in pending :
        /\ p.op = "ReorderInventory"
        /\ LET out == ReorderCommit(db, p.caller, p.id, p.orderedIds) IN
           /\ db' = out.db
           /\ resp' = [op |-> "ReorderInventory", caller |-> p.caller, id |-> p.id,
                       sub |-> NoId, status |-> out.status, error |-> out.error,
                       orderedIds |-> p.orderedIds]
        /\ pending' = pending \ {p}
        /\ UNCHANGED budget

TxAddInventory ==
    /\ budget > 0
    /\ \E uid \in InvCallers :
          Answer("AddInventory", uid, InvCharacter, NoId,
                 AddInventory(db, uid, InvCharacter, [itemId |-> 1]))

TxGetInventory ==
    /\ budget > 0
    /\ \E uid \in InvCallers :
          Answer("GetInventory", uid, InvCharacter, NoId, GetInventory(db, uid, InvCharacter))

NextTx ==
    \/ TxBeginReorder
    \/ TxCommitReorder
    \/ TxAddInventory
    \/ TxGetInventory
    \/ InvRemoveInventory

SpecTx == InitTx /\ [][NextTx]_vars

\* the last position at which id occurs in orderedIds
LastIndex(orderedIds, id) ==
    CHOOSE k \in 1..Len(orderedIds) :
        /\ orderedIds[k] = id
        /\ \A j \in (k + 1)..Len(orderedIds) : orderedIds[j] # id

\* C26: the step that answers a reorder either applies every sortOrder write
\* of the request (answered 200: each listed row holds the index of its
\* position, every other row is as it was) or applies none of them (any other
\* answer, among them the failure of an update whose row was removed after the
\* validation read); a reorder writes in no other step, so no request that
\* runs in between sees part of its writes
ReorderAllOrNothing ==
    [][/\ (Replied /\ resp'.op = "ReorderInventory") =>
              IF resp'.status = 200
              THEN db'.inventory =
                       {IF r.id \in SeqToSet(resp'.orderedIds)
                        THEN [r EXCEPT !.sortOrder = LastIndex(resp'.orderedIds, r.id) - 1]
                        ELSE r : r \in db.inventory}
              ELSE db'.inventory = db.inventory
       /\ (pending' # pending /\ budget' # budget) => db' = db
      ]_vars

\* a reorder that reverses the rows passed its validation read, one of its rows
\* was removed before the transaction ran, and the reorder failed: the rows
\* that remain hold the sortOrder they started with
FailedReorderWroteNothing ==
    /\ resp.op = "ReorderInventory"
    /\ resp.status = 500
    /\ Len(resp.orderedIds) > 1
    /\ \E i \in 1..Len(resp.orderedIds) : ~Has(db.inventory, resp.orderedIds[i])
    /\ \E i \in 1..Len(resp.orderedIds) :
          /\ Has(db.inventory, resp.orderedIds[i])
          /\ Get(db.inventory, resp.orderedIds[i]).sortOrder # i - 1
    /\ InventoryOf(db, InvCharacter) \subseteq SeedRows(SeedCharacters, OrderSeedRows).inventory

-----------------------------------------------------------------------------
(* Paths that change a token's position *)

PositionOf(d, tokenId) == <<Get(d.tokens, tokenId).x, Get(d.tokens, tokenId).y>>

\* the stored tokens whose position differs between d and e
MovedTokens(d, e) ==
    {t.id : t \in {u \in d.tokens : Has(e.tokens, u.id) /\ PositionOf(e, u.id) # PositionOf(d, u.id)}}

\* C27: a stored token's position changes only in a step that answers a REST
\* token update or a token:move event, and only for the token the request
\* names; the REST update changes it only for a caller who is DM of the
\* campaign of the token's map; a token:move naming a stored token is applied
\* whoever sends it (the event carries no session), stores the x and y it
\* carries, and its token:moved event goes to the room of the mapId the sender
\* supplied
PositionChangesByTwoPaths ==
    [][/\ MovedTokens(db, db') # {} =>
              /\ resp'.op \in {"UpdateToken", "MoveToken"}
              /\ MovedTokens(db, db') = {resp'.id}
       /\ (resp'.op = "UpdateToken" /\ MovedTokens(db, db') # {}) =>
              RoleIn(db, resp'.caller,
                     Get(db.maps, Get(db.tokens, resp'.id).mapId).campaignId) = "DM"
       /\ (resp'.op = "MoveToken" /\ resp' # resp /\ Has(db.tokens, resp'.id)) =>
              /\ resp'.caller = NoUser
              /\ resp'.status = 200
              /\ PositionOf(db', resp'.id) = <<resp'.x, resp'.y>>
              /\ resp'.room = resp'.mapId
      ]_vars

\* a sender with no session moved token 1 and named another map: the position
\* changed and the event went to the room of a map the token is not on
MovedWithoutSession ==
    /\ resp.op = "MoveToken"
    /\ resp.caller = NoUser
    /\ resp.status = 200
    /\ PositionOf(db, resp.id) # PositionOf(SeedWorld, resp.id)
    /\ resp.room # Get(db.tokens, resp.id).mapId

-----------------------------------------------------------------------------
(* Campaigns and their DMs *)

\* C28: every campaign has at least one member whose role is DM
EveryCampaignHasDM ==
    \A c \in db.campaigns :
        \E m \in db.members : m.campaignId = c.id /\ m.role = "DM"

-----------------------------------------------------------------------------
(* sortOrder values of one character *)

\* C29: no two inventory rows of one character hold the same sortOrder
SortOrdersDistinct ==
    \A r1, r2 \in db.inventory :
        (r1.characterId = r2.characterId /\ r1.sortOrder = r2.sortOrder) => r1.id = r2.id

-----------------------------------------------------------------------------
(* Token coordinates *)

\* C30: every stored token's x and y are at least 0
TokenCoordinatesNonNegative ==
    \A t \in db.tokens : t.x >= 0 /\ t.y >= 0

=============================================================================
